---- MODULE Spec2Model ----
(***************************************************************************)
(* A model of the moderation-and-template core of the Shee Discord bot:    *)
(* the Gemini API-key rate limiter and generate() retry loop               *)
(* (src/src/services/gemini.service.ts, the sliding-window version), and   *)
(* the least-used template allocator with background replenishment         *)
(* (src/src/services/template.service.ts).                                 *)
(***************************************************************************)
EXTENDS Integers, Sequences, FiniteSets, TLC

(***************************************************************************)
(* Program constants.                                                      *)
(***************************************************************************)
RATE_LIMIT_DURATION_MS == 60000
MAX_REQUESTS_PER_MINUTE == 15
LOW_TEMPLATE_THRESHOLD == 10
USAGE_THRESHOLD == 5

(***************************************************************************)
(* Bounds of the model.                                                    *)
(***************************************************************************)
\* number of configured keys in the key-pool specification
PoolKeys == 2
\* largest number of configured keys in the generate specification
GenKeys == 4
\* how many times the clock ticks
MaxTicks == 2
\* callers of generate() whose calls may overlap
NumCalls == 1
\* generate() calls made in a run
MaxGenerates == 2
\* generate() calls that may overlap, and the keys they share
NumRacers == 2
RaceKeys == 3
\* callers of get...Template() whose calls may overlap
NumAllocators == 2
\* get...Template() calls made in a run
MaxAllocs == 2
\* rows the generate...Templates() runs insert in a run
MaxInserted == 1
\* get...Template() calls made one after the other by a single caller
MaxSeqAllocs == 4

\* execute(message) calls that may overlap, and messages in a run
NumEvents == 2
MaxEvents == 2
\* callers of checkSpam() whose calls may overlap
NumSpamChecks == 2
\* checkSpam() calls made in a run
MaxMessages == 5
\* how many times the clock of the spam counters ticks
MaxSpamTicks == 2
\* violation handlers whose calls may overlap
NumHandlers == 2
\* violation handler calls made in a run
MaxViolations == 2
\* how many times the clock of the warning ledger ticks
MaxLedgerTicks == 2
\* violations handled one at a time in a run
MaxSeqViolations == 4

\* The clock advances by half a rate-limit window per tick, so that the instants
\* t + window/2 and t + window are both observed.
TickMs == RATE_LIMIT_DURATION_MS \div 2
StartMs == RATE_LIMIT_DURATION_MS

VARIABLES
  now,              \* Date.now()
  keys,             \* cfg.GEMINI_API_KEYS.length
  currentKeyIndex,  \* GeminiService.currentKeyIndex
  keyUsageWindows,  \* GeminiService.keyUsageWindows: index -> KeyUsageWindow
  gen,              \* the generate() calls in flight
  done,             \* history: how the latest finished generate() call ended
  ticks,            \* how often the clock has ticked
  calls,            \* how many generate() calls were made
  lastAcquire,      \* history: outcome of the latest getNextApiKey call
  recentUses,       \* history: per key, the uses made in the last window
  markedAt,         \* history: per key, when it was last marked rate limited
  exhaustedAt       \* history: when getNextApiKey last threw

keyVars == <<now, keys, currentKeyIndex, keyUsageWindows, gen, done, ticks, calls,
             lastAcquire, recentUses, markedAt, exhaustedAt>>

VARIABLES
  templates,        \* the three template tables: category -> rows, in id order
  isGenerating,     \* TemplateService.isGenerating
  alloc,            \* the get...Template() calls in flight
  served,           \* history: how the latest finished get...Template() call ended
  batch,            \* the generate...Templates() run
  running,          \* history: generate...Templates() runs between start and exit
  allocs,           \* how many get...Template() calls were made
  inserted          \* how many rows the generate...Templates() runs inserted

tplVars == <<templates, isGenerating, alloc, served, batch, running, allocs, inserted>>

VARIABLES
  counters,         \* the spam counters in Redis: cache key -> count and expiry
  spamCheck,        \* the checkSpam() calls in flight
  arrivals,         \* history: per cache key, the instants of its counted messages
  faulted,          \* history: the cache keys on which a Redis call failed
  verdict,          \* history: how the latest finished checkSpam() call ended
  messages          \* how many checkSpam() calls were made

spamVars == <<counters, spamCheck, arrivals, faulted, verdict, messages>>

VARIABLES
  ledger,           \* the user_warnings table: rows in id order
  generalChannels,  \* the guilds that have a text channel named "...general..."
  handling,         \* the handleSpam/handleBadword/handleUnauthorizedLink calls in flight
  timeouts,         \* per member, until when Discord has it timed out (0: never)
  violations        \* how many handler calls were made

escVars == <<ledger, generalChannels, handling, timeouts, violations>>
modVars == <<spamVars, escVars>>

VARIABLES
  event,            \* the execute(message) calls of the messageCreate event in flight
  events,           \* how many messages the event handler was called with
  errorLog          \* history: the catch blocks that logged, per message

msgVars == <<event, events, errorLog>>
vars == <<keyVars, tplVars, modVars, msgVars>>

KeyIdx == 0..(keys - 1)
Calls == DOMAIN gen

(***************************************************************************)
(* TemplatePool: tables and queries of TemplateService.                    *)
(***************************************************************************)
BATCH_SIZE == 10
\* this.generateWelcomeTemplates(20), generateMorningTemplates(20), ...
GenerateCount == 20

Categories == {"welcome", "morning", "warning"}
\* type MoodType, type ViolationType
Moods == <<"motivational", "chill", "energetic">>
ViolationTypes == {"spam", "badword", "link"}
Range(f) == {f[i] : i \in DOMAIN f}
\* the tag a row of a table can carry (welcome rows carry none)
Tags(cat) ==
  CASE cat = "welcome" -> {"none"}
    [] cat = "morning" -> Range(Moods)
    [] cat = "warning" -> ViolationTypes
\* the selector a get...Template() call can pass (mood is optional)
Selectors(cat) ==
  CASE cat = "welcome" -> {"any"}
    [] cat = "morning" -> {"any"} \cup Range(Moods)
    [] cat = "warning" -> ViolationTypes
\* last_used_at of a row that was never used
NULL == -1

\* the WHERE clause of getLeastUsed...Template
Matches(row, cat, sel) ==
  CASE cat = "welcome" -> TRUE
    [] cat = "morning" -> sel = "any" \/ row.tag = sel
    [] cat = "warning" -> row.tag = sel
Matching(rows, cat, sel) == {i \in DOMAIN rows : Matches(rows[i], cat, sel)}

\* getAvailableTemplateCount, getAvailableMorningTemplateCount,
\* getAvailableWarningTemplateCount: the WHERE clause of each count(*)
Counted(row, cat, sel) ==
  CASE cat = "welcome" -> row.usedCount < USAGE_THRESHOLD
    [] cat = "morning" -> /\ row.usedCount < USAGE_THRESHOLD
                          /\ sel = "any" \/ row.tag = sel
    [] cat = "warning" -> row.tag = sel
GetAvailableTemplateCount(rows, cat, sel) ==
  Cardinality({i \in DOMAIN rows : Counted(rows[i], cat, sel)})

\* ORDER BY used_count ASC, last_used_at ASC as PostgreSQL sorts it: NULL
\* after every value
SortsBefore(a, b) ==
  \/ a.usedCount < b.usedCount
  \/ /\ a.usedCount = b.usedCount
     /\ a.lastUsedAt # NULL
     /\ b.lastUsedAt = NULL \/ a.lastUsedAt < b.lastUsedAt
\* a variant without the ORDER BY: any matching row can come first
GetLeastUsedTemplate_Unordered(rows, cat, sel) == Matching(rows, cat, sel)

\* a variant that falls back to the whole table when no row matches
GetLeastUsedTemplate_FallsBack(rows, cat, sel) ==
  LET pool == IF Matching(rows, cat, sel) = {} THEN DOMAIN rows
              ELSE Matching(rows, cat, sel)
  IN  {i \in pool : \A j \in pool : ~SortsBefore(rows[j], rows[i])}

\* ... LIMIT 1: the rows that can come first
GetLeastUsedTemplate(rows, cat, sel) ==
  {i \in Matching(rows, cat, sel) :
     \A j \in Matching(rows, cat, sel) : ~SortsBefore(rows[j], rows[i])}

\* a variant that sets last_used_at only
MarkTemplateAsUsed_NoIncrement(rows, id, stamp) ==
  [i \in DOMAIN rows |->
     IF i = id THEN [rows[i] EXCEPT !.lastUsedAt = stamp] ELSE rows[i]]

\* SET used_count = used_count + 1, last_used_at = <stamp> WHERE id = <id>
MarkTemplateAsUsed(rows, id, stamp) ==
  [i \in DOMAIN rows |->
     IF i = id
     THEN [rows[i] EXCEPT !.usedCount = @ + 1, !.lastUsedAt = stamp]
     ELSE rows[i]]

\* a variant that inserts rows as if they had been used once
InsertTemplates_AlreadyUsed(rows, tags) ==
  rows \o [i \in DOMAIN tags |-> [tag |-> tags[i], usedCount |-> 1, lastUsedAt |-> 0]]

\* templates.map(content => ({content, usedCount: 0})) and the insert
InsertTemplates(rows, tags) ==
  rows \o [i \in DOMAIN tags |-> [tag |-> tags[i], usedCount |-> 0, lastUsedAt |-> NULL]]

CeilDiv(a, b) == (a + b - 1) \div b
\* how many geminiService calls one generate...Templates(20) makes, and the
\* loop index i of each
Rounds(cat) ==
  IF cat = "morning"
  THEN Len(Moods) * CeilDiv(CeilDiv(GenerateCount, Len(Moods)), BATCH_SIZE)
  ELSE CeilDiv(GenerateCount, BATCH_SIZE)
BatchIndex(cat, round) ==
  IF cat = "morning"
  THEN (round - 1) % CeilDiv(CeilDiv(GenerateCount, Len(Moods)), BATCH_SIZE)
  ELSE round - 1
BatchesPerLoop(cat) ==
  IF cat = "morning"
  THEN CeilDiv(CeilDiv(GenerateCount, Len(Moods)), BATCH_SIZE)
  ELSE CeilDiv(GenerateCount, BATCH_SIZE)

\* a caller of get<cat>Template() between calls
IdleAlloc(cat) ==
  [pc |-> "idle", cat |-> cat, sel |-> "any", count |-> 0, fresh |-> 0,
   row |-> 0, seenCount |-> 0, selectedAt |-> 0,
   alone |-> TRUE, tied |-> FALSE, matching |-> 0, skipped |-> FALSE]
NoneServed ==
  [cat |-> "welcome", sel |-> "any", outcome |-> "none", error |-> "null",
   row |-> 0, seenCount |-> 0, alone |-> TRUE, tied |-> FALSE, matching |-> 0,
   prevRow |-> 0, prevTied |-> FALSE, prevAlone |-> FALSE]
\* thrown: whether the last run that ended rejected (history)
IdleBatch == [pc |-> "idle", cat |-> "welcome", round |-> 0, thrown |-> FALSE]

\* the template service over the given tables, nothing in flight
TplInit(tables, callers, cat) ==
  /\ templates = tables
  /\ isGenerating = FALSE
  /\ alloc = [p \in 1..callers |-> IdleAlloc(cat)]
  /\ served = NoneServed
  /\ batch = IdleBatch
  /\ running = 0
  /\ allocs = 0
  /\ inserted = 0

(***************************************************************************)
(* ViolationDetector: the spam counter of ModerationService.checkSpam and  *)
(* cache.increment.                                                        *)
(***************************************************************************)
SPAM_CONFIG == [messageLimit |-> 5, timeWindowSeconds |-> 10]

Guilds == {"g1", "g2"}
Users == {"u1", "u2"}
\* `spam:${guildId}:${userId}`
CreateSpamCacheKey(guildId, userId) == <<"spam", guildId, userId>>
\* the members that write messages: two users of one guild, and one of them
\* in a second guild as well
Authors == {<<"g1", "u1">>, <<"g1", "u2">>, <<"g2", "u1">>}
SpamKeys == {CreateSpamCacheKey(a[1], a[2]) : a \in Authors}

\* a key Redis does not hold
NoCounter == [count |-> 0, expireAt |-> NULL]
\* Redis holds the key at instant t: it was set and its expiry, if any, is ahead
Live(c, t) == c.count > 0 /\ (c.expireAt = NULL \/ t < c.expireAt)
\* INCR key: a missing or expired key counts from 0 and has no expiry
RedisIncr(c, t) ==
  IF Live(c, t) THEN [c EXCEPT !.count = @ + 1] ELSE [count |-> 1, expireAt |-> NULL]
\* EXPIRE key seconds
RedisExpire(c, t, ttlSeconds) ==
  IF Live(c, t) THEN [c EXCEPT !.expireAt = t + ttlSeconds * 1000] ELSE c

\* a variant that fails closed: a count of 0 flags the message
IsSpam_FailClosed(messageCount) ==
  messageCount = 0 \/ messageCount > SPAM_CONFIG.messageLimit

\* a variant that flags the message that reaches the limit
IsSpam_AtLimit(messageCount) == messageCount >= SPAM_CONFIG.messageLimit

\* const isSpam = messageCount > SPAM_CONFIG.messageLimit
IsSpam(messageCount) == messageCount > SPAM_CONFIG.messageLimit

IdleSpamCheck == [pc |-> "idle", key |-> <<>>, count |-> 0, nth |-> 0]
NoVerdict == [key |-> <<>>, outcome |-> "none", count |-> 0, isSpam |-> FALSE, nth |-> 0]

\* the cache after `prior` messages of one user were counted at StartMs, nothing
\* in flight
SpamInit(callers, prior) ==
  /\ counters = [k \in SpamKeys |->
                   IF prior > 0 /\ k = CreateSpamCacheKey("g1", "u1")
                   THEN [count |-> prior,
                         expireAt |-> StartMs + SPAM_CONFIG.timeWindowSeconds * 1000]
                   ELSE NoCounter]
  /\ spamCheck = [h \in 1..callers |-> IdleSpamCheck]
  /\ arrivals = [k \in SpamKeys |->
                   IF k = CreateSpamCacheKey("g1", "u1")
                   THEN [i \in 1..prior |-> StartMs] ELSE <<>>]
  /\ faulted = {}
  /\ verdict = NoVerdict
  /\ messages = 0

(***************************************************************************)
(* EscalationEngine: the warning ledger of ModerationService.              *)
(***************************************************************************)
MODERATION_CONFIG ==
  [warningThreshold |-> 3, timeoutDurationMs |-> 10 * 60 * 1000, warningWindowDays |-> 7]
DayMs == 24 * 60 * 60 * 1000

\* a variant with a window of one day
GetWarningWindowDate_OneDay(t) == t - DayMs

\* new Date(Date.now() - daysAgo * 24 * 60 * 60 * 1000)
GetWarningWindowDate(t) == t - MODERATION_CONFIG.warningWindowDays * DayMs

\* a variant that counts the rows of every issuer
GetWarningCount_AnyIssuer(rows, userId, guildId, t) ==
  Cardinality({i \in DOMAIN rows :
                 /\ rows[i].userId = userId
                 /\ rows[i].guildId = guildId
                 /\ rows[i].createdAt >= GetWarningWindowDate(t)})

\* getWarningCount: the count(*) over user_warnings
GetWarningCount(rows, userId, guildId, t) ==
  Cardinality({i \in DOMAIN rows :
                 /\ rows[i].userId = userId
                 /\ rows[i].guildId = guildId
                 /\ rows[i].warnedBy = "shee"
                 /\ rows[i].createdAt >= GetWarningWindowDate(t)})

\* a variant that escalates only above the threshold
ShouldEscalateToHeez_AboveThreshold(warningCount) ==
  warningCount > MODERATION_CONFIG.warningThreshold

\* shouldEscalate: warningCount >= MODERATION_CONFIG.warningThreshold
ShouldEscalateToHeez(warningCount) ==
  warningCount >= MODERATION_CONFIG.warningThreshold

\* the row recordWarning inserts (created_at defaults to now())
NewWarning(userId, guildId, reason, t) ==
  [userId |-> userId, guildId |-> guildId, warnedBy |-> "shee", reason |-> reason,
   severity |-> 1, createdAt |-> t]
\* the row recordEscalation inserts
NewEscalation(userId, guildId, reason, t) ==
  [userId |-> userId, guildId |-> guildId, warnedBy |-> "heez",
   reason |-> "Escalated from Shee: " \o reason, severity |-> 3, createdAt |-> t]

\* a variant of handleUnauthorizedLink that records the warning as well
AfterWarningSent_AlwaysRecords(type) == "record"

\* handleSpam and handleBadword record the warning after sendSoftWarning,
\* handleUnauthorizedLink does not
AfterWarningSent(type) == IF type = "link" THEN "done" ELSE "record"
\* handleSpam and handleBadword count the warnings after message.delete(),
\* handleUnauthorizedLink goes on to sendSoftWarning
AfterDelete(type) == IF type = "link" THEN "template" ELSE "count"

\* a handler between calls; deleted, timedOut, notified and sent are history:
\* what the call in flight has done so far
IdleHandler ==
  [pc |-> "idle", guildId |-> "g1", userId |-> "u1", type |-> "spam",
   warningCount |-> 0, deleted |-> FALSE, timedOut |-> FALSE, notified |-> FALSE,
   sent |-> FALSE]

\* the moderation service over the given ledger, nothing in flight
EscInit(rows, general, callers) ==
  /\ ledger = rows
  /\ generalChannels = general
  /\ handling = [h \in 1..callers |-> IdleHandler]
  /\ timeouts = [a \in Authors |-> 0]
  /\ violations = 0

(***************************************************************************)
(* The messageCreate event: execute(message) and handleMention.            *)
(***************************************************************************)
\* what the checks of performModerationChecks and handleMention see in a
\* message: a badword, a link that is not whitelisted, a mention of the bot,
\* text besides the mention
Content(badword, link, mention, text) ==
  [badword |-> badword, link |-> link, mention |-> mention, text |-> text]
Contents ==
  {Content(FALSE, FALSE, FALSE, TRUE), Content(TRUE, FALSE, FALSE, TRUE),
   Content(FALSE, TRUE, FALSE, TRUE), Content(TRUE, TRUE, TRUE, TRUE),
   Content(FALSE, FALSE, TRUE, TRUE), Content(FALSE, FALSE, TRUE, FALSE)}

\* an execute(message) call: where it awaits, the slot of the call it awaits,
\* the checks it ran and the handlers it invoked, the replies delivered to the
\* author, and how its promise settled
IdleEvent ==
  [pc |-> "idle", nth |-> 0, guildId |-> "g1", userId |-> "u1",
   content |-> Content(FALSE, FALSE, FALSE, TRUE), type |-> "spam", slot |-> 0,
   checks |-> <<>>, handled |-> <<>>,
   genFailed |-> FALSE, replies |-> <<>>, result |-> "none"]

MsgInit(callers) ==
  /\ event = [e \in 1..callers |-> IdleEvent]
  /\ events = 0
  /\ errorLog = {}

\* the try block an await lies in: the catch that receives its rejection
\* ("none": no try block encloses it)
CatchSite_NoOuterTry(pc) ==
  CASE pc \in {"generate", "reply"} -> "generateAIResponse"
    [] pc \in {"greeting", "typing", "apology"} -> "handleMention"
    [] OTHER -> "none"

CatchSite(pc) ==
  CASE pc \in {"generate", "reply"} -> "generateAIResponse"
    [] pc \in {"greeting", "typing", "apology"} -> "handleMention"
    [] OTHER -> "execute"

\* a variant whose inner catch sends the response again
OnCatch_RepliesAgain(site) ==
  CASE site = "generateAIResponse" -> "reply"
    [] site = "handleMention" -> "fallback"
    [] OTHER -> "idle"

\* the await a catch block issues after logging: the apology reply of
\* generateAIResponse, the fallback reply of handleMention, none in execute
OnCatch(site) ==
  CASE site = "generateAIResponse" -> "apology"
    [] site = "handleMention" -> "fallback"
    [] OTHER -> "idle"

\* the reply an await of message.reply delivers
ReplyKind(pc) ==
  CASE pc = "greeting" -> "greeting"
    [] pc = "reply" -> "generated"
    [] pc = "apology" -> "apology"
    [] pc = "fallback" -> "fallback"

\* execute returns
Resolved(ev) == [ev EXCEPT !.pc = "idle", !.result = "resolved"]
\* the await at ev.pc rejects
Thrown(ev) ==
  IF CatchSite(ev.pc) = "none"
  THEN [ev EXCEPT !.pc = "idle", !.result = "rejected"]
  ELSE IF OnCatch(CatchSite(ev.pc)) = "idle"
       THEN Resolved(ev)
       ELSE [ev EXCEPT !.pc = OnCatch(CatchSite(ev.pc))]
Logged(ev) == errorLog \cup {<<ev.nth, CatchSite(ev.pc)>>}

\* performModerationChecks after checkSpam, then isBotMentioned and
\* handleMention up to its first await
\* a variant that looks for links before badwords
Moderated_LinkFirst(ev, isSpam) ==
  IF isSpam THEN [ev EXCEPT !.pc = "callHandler", !.type = "spam"]
  ELSE IF ev.content.link
  THEN [ev EXCEPT !.pc = "callHandler", !.type = "link", !.checks = @ \o <<"link">>]
  ELSE IF ev.content.badword
  THEN [ev EXCEPT !.pc = "callHandler", !.type = "badword",
                  !.checks = @ \o <<"link", "badword">>]
  ELSE LET checked == [ev EXCEPT !.checks = @ \o <<"link", "badword">>]
       IN  IF ev.content.mention
           THEN [checked EXCEPT !.pc = IF ev.content.text THEN "typing" ELSE "greeting"]
           ELSE Resolved(checked)

Moderated(ev, isSpam) ==
  IF isSpam THEN [ev EXCEPT !.pc = "callHandler", !.type = "spam"]
  ELSE IF ev.content.badword
  THEN [ev EXCEPT !.pc = "callHandler", !.type = "badword", !.checks = @ \o <<"badword">>]
  ELSE IF ev.content.link
  THEN [ev EXCEPT !.pc = "callHandler", !.type = "link",
                  !.checks = @ \o <<"badword", "link">>]
  ELSE LET checked == [ev EXCEPT !.checks = @ \o <<"badword", "link">>]
       IN  IF ev.content.mention
           THEN [checked EXCEPT !.pc = IF ev.content.text THEN "typing" ELSE "greeting"]
           ELSE Resolved(checked)

\* the moderation service and the event handler at rest
ModIdle == SpamInit(0, 0) /\ EscInit(<<>>, {}, 0) /\ MsgInit(0)

(***************************************************************************)
(* KeyRateLimiter: pure parts of GeminiService.                            *)
(***************************************************************************)
\* window.timestamps.filter((ts) => ts > Date.now() - RATE_LIMIT_DURATION_MS)
CleanOldTimestamps(window, t) ==
  [window EXCEPT !.timestamps =
     SelectSeq(window.timestamps, LAMBDA ts : ts > t - RATE_LIMIT_DURATION_MS)]

\* a variant that lets a full window take one more request
IsKeyAvailable_OneTooMany(window, t) ==
  IF window.rateLimitedUntil > t
  THEN FALSE
  ELSE Len(CleanOldTimestamps(window, t).timestamps) <= MAX_REQUESTS_PER_MINUTE

\* a variant that forgets the manual rate limit
IsKeyAvailable_IgnoresCooldown(window, t) ==
  Len(CleanOldTimestamps(window, t).timestamps) < MAX_REQUESTS_PER_MINUTE

\* the value isKeyAvailable returns
IsKeyAvailable(window, t) ==
  IF window.rateLimitedUntil > t
  THEN FALSE
  ELSE Len(CleanOldTimestamps(window, t).timestamps) < MAX_REQUESTS_PER_MINUTE

\* the window isKeyAvailable leaves behind: cleaned unless manually limited
AfterIsKeyAvailable(window, t) ==
  IF window.rateLimitedUntil > t THEN window ELSE CleanOldTimestamps(window, t)

RecordKeyUsage(window, t) ==
  LET w == CleanOldTimestamps(window, t)
  IN  [w EXCEPT !.timestamps = Append(w.timestamps, t)]

\* a variant with the one-hour cooldown of the counter-based service
MarkKeyAsRateLimited_OneHour(windows, keyIndex, t) ==
  IF keyIndex \in DOMAIN windows
  THEN [windows EXCEPT ![keyIndex].rateLimitedUntil = t + 60 * RATE_LIMIT_DURATION_MS]
  ELSE windows

MarkKeyAsRateLimited(windows, keyIndex, t) ==
  IF keyIndex \in DOMAIN windows
  THEN [windows EXCEPT ![keyIndex].rateLimitedUntil = t + RATE_LIMIT_DURATION_MS]
  ELSE windows

\* the for loop of getNextApiKey, from `attempts` on
RECURSIVE ScanKeys(_, _, _, _, _)
ScanKeys(attempts, cursor, windows, t, n) ==
  IF attempts >= n
  THEN [ok |-> FALSE, key |-> -1, cursor |-> cursor, windows |-> windows]
  ELSE IF IsKeyAvailable(windows[cursor], t)
       THEN [ok |-> TRUE, key |-> cursor, cursor |-> (cursor + 1) % n,
             windows |-> [windows EXCEPT ![cursor] =
                             RecordKeyUsage(AfterIsKeyAvailable(@, t), t)]]
       ELSE ScanKeys(attempts + 1, (cursor + 1) % n,
                     [windows EXCEPT ![cursor] = AfterIsKeyAvailable(@, t)], t, n)

\* a variant that starts every scan at key 0
GetNextApiKey_FromZero(cursor, windows, t, n) == ScanKeys(0, 0, windows, t, n)

GetNextApiKey(cursor, windows, t, n) == ScanKeys(0, cursor, windows, t, n)

ExhaustedError == "All Gemini API keys have reached rate limit"
NoAttemptError == "Failed to generate text after all retries"
UpstreamErrors == {"429", "quota", "other"}
\* what result.response.text() can hold: a sentence, nothing, braces only
UpstreamTexts == {"Halo!", "", "{}"}
\* a variant that takes every error for a rate-limit signal
IsRateLimitError_AnyError(error) == error \in UpstreamErrors \cup {ExhaustedError}

\* error.message?.includes("429") || error.message?.includes("quota")
IsRateLimitError(error) == error \in {"429", "quota"}

(***************************************************************************)
(* ContentGenerator: GeminiService.generate.                               *)
(***************************************************************************)
IdleCall ==
  [pc |-> "idle", retry |-> 0, key |-> -1, lastError |-> "null",
   attempts |-> 0, outcome |-> "none", error |-> "null", caught |-> "null",
   text |-> "null"]

\* the times in `uses` that lie in the window ending at t
InWindow(uses, t) == SelectSeq(uses, LAMBDA ts : ts > t - RATE_LIMIT_DURATION_MS)

\* The synchronous part of generate(): the retry loop from its test up to the
\* next await or to the throw that ends the call.  `st` carries the service
\* state and the history: [call, cursor, windows, lastAcquire, recentUses,
\* markedAt, exhaustedAt].
RECURSIVE RetryLoop(_, _, _)
RECURSIVE Catch(_, _, _, _)

\* catch (error) { lastError = error; if (isRateLimitError) { mark; continue }
\*                 throw error }
Catch(st, error, t, n) ==
  IF IsRateLimitError(error)
  THEN LET failedKeyIndex == (st.cursor - 1 + n) % n
       IN  RetryLoop([st EXCEPT
                        !.call.lastError = error,
                        !.call.retry = @ + 1,
                        !.windows = MarkKeyAsRateLimited(@, failedKeyIndex, t),
                        !.markedAt[failedKeyIndex] = t],
                     t, n)
  ELSE [st EXCEPT !.call.lastError = error,
                  !.call.pc = "done", !.call.outcome = "thrown",
                  !.call.error = error]

\* a variant with a fixed budget of three retries
RetryLoop_ThreeRetries(st, t, n) ==
  IF st.call.retry >= 3
  THEN [st EXCEPT !.call.pc = "done", !.call.outcome = "thrown",
                  !.call.error = IF st.call.lastError = "null"
                                 THEN NoAttemptError ELSE st.call.lastError]
  ELSE LET r == GetNextApiKey(st.cursor, st.windows, t, n)
           got == [st EXCEPT !.cursor = r.cursor, !.windows = r.windows,
                      !.lastAcquire = [seq |-> 1 - @.seq, ok |-> r.ok,
                                       key |-> r.key]]
       IN  IF r.ok
           THEN [got EXCEPT !.call.pc = "await", !.call.key = r.key,
                            !.call.attempts = @ + 1,
                            !.recentUses[r.key] = Append(@, t)]
           ELSE Catch([got EXCEPT !.exhaustedAt = t], ExhaustedError, t, n)

\* for (let retry = 0; retry < maxRetries; retry++) { try { ... } }
\* throw lastError || new Error("Failed to generate text after all retries")
RetryLoop(st, t, n) ==
  IF st.call.retry >= n
  THEN [st EXCEPT !.call.pc = "done", !.call.outcome = "thrown",
                  !.call.error = IF st.call.lastError = "null"
                                 THEN NoAttemptError ELSE st.call.lastError]
  ELSE LET r == GetNextApiKey(st.cursor, st.windows, t, n)
           got == [st EXCEPT !.cursor = r.cursor, !.windows = r.windows,
                      !.lastAcquire = [seq |-> 1 - @.seq, ok |-> r.ok,
                                       key |-> r.key]]
       IN  IF r.ok
           THEN \* model.generateContent(...) is issued and awaited
                [got EXCEPT !.call.pc = "await", !.call.key = r.key,
                            !.call.attempts = @ + 1,
                            !.recentUses[r.key] = Append(@, t)]
           ELSE Catch([got EXCEPT !.exhaustedAt = t], ExhaustedError, t, n)

ServiceState(call) ==
  [call |-> call, cursor |-> currentKeyIndex, windows |-> keyUsageWindows,
   lastAcquire |-> lastAcquire, recentUses |-> recentUses,
   markedAt |-> markedAt, exhaustedAt |-> exhaustedAt]

\* A finished call leaves its slot; how it ended is kept in `done`.
Settle(c, st) ==
  /\ IF st.call.pc = "done"
     THEN gen' = [gen EXCEPT ![c] = IdleCall] /\ done' = st.call
     ELSE gen' = [gen EXCEPT ![c] = st.call] /\ UNCHANGED done
  /\ currentKeyIndex' = st.cursor
  /\ keyUsageWindows' = st.windows
  /\ lastAcquire' = st.lastAcquire
  /\ recentUses' = st.recentUses
  /\ markedAt' = st.markedAt
  /\ exhaustedAt' = st.exhaustedAt

\* generate(prompt, options) is called
GenerateStart(c) ==
  /\ gen[c].pc = "idle"
  /\ calls < MaxGenerates
  /\ calls' = calls + 1
  /\ Settle(c, RetryLoop(ServiceState(IdleCall), now, keys))
  /\ UNCHANGED <<now, keys, ticks>>
  /\ UNCHANGED <<tplVars, modVars>>

\* the awaited generateContent resolves and result.response.text() is returned
UpstreamOk(c, text) ==
  /\ gen[c].pc = "await"
  /\ gen' = [gen EXCEPT ![c] = IdleCall]
  /\ done' = [gen[c] EXCEPT !.pc = "done", !.outcome = "text", !.text = text]
  /\ UNCHANGED <<now, keys, currentKeyIndex, keyUsageWindows, ticks, calls,
                 lastAcquire, recentUses, markedAt, exhaustedAt>>
  /\ UNCHANGED <<tplVars, modVars>>

\* the awaited generateContent (or response.text()) throws `error`
UpstreamError(c, error) ==
  /\ gen[c].pc = "await"
  /\ Settle(c, Catch(ServiceState([gen[c] EXCEPT !.caught = error]), error,
                     now, keys))
  /\ UNCHANGED <<now, keys, ticks, calls>>
  /\ UNCHANGED <<tplVars, modVars>>

\* getUsageStats() cleans every window as it reports
GetUsageStats ==
  /\ keyUsageWindows' = [i \in KeyIdx |-> CleanOldTimestamps(keyUsageWindows[i], now)]
  /\ keyUsageWindows' # keyUsageWindows
  /\ UNCHANGED <<now, keys, currentKeyIndex, gen, done, ticks, calls, lastAcquire,
                 recentUses, markedAt, exhaustedAt>>
  /\ UNCHANGED <<tplVars, modVars>>

\* the clock advances
Tick ==
  /\ ticks < MaxTicks
  /\ ticks' = ticks + 1
  /\ now' = now + TickMs
  /\ recentUses' = [i \in KeyIdx |-> InWindow(recentUses[i], now')]
  /\ UNCHANGED <<keys, currentKeyIndex, keyUsageWindows, gen, done, calls,
                 lastAcquire, markedAt, exhaustedAt>>
  /\ UNCHANGED <<tplVars, modVars>>

\* The service after `prior` generate() calls that each took one key at time t:
\* the state a running bot is in when the calls under study begin.
RECURSIVE Warm(_, _, _, _)
Warm(st, prior, t, n) ==
  IF st.cursor \notin DOMAIN st.windows \/ prior = 0
  THEN st
  ELSE LET r == GetNextApiKey(st.cursor, st.windows, t, n)
       IN  Warm([cursor |-> r.cursor, windows |-> r.windows,
                 uses |-> IF r.ok THEN [st.uses EXCEPT ![r.key] = Append(@, t)]
                          ELSE st.uses],
                prior - 1, t, n)

Fresh(n) ==
  [cursor |-> 0,
   windows |-> [i \in 0..(n - 1) |-> [timestamps |-> <<>>, rateLimitedUntil |-> 0]],
   uses |-> [i \in 0..(n - 1) |-> <<>>]]

KeyInit(n, prior, callers) ==
  LET st == Warm(Fresh(n), prior, StartMs, n)
  IN  /\ now = StartMs
      /\ keys = n
      /\ currentKeyIndex = st.cursor
      /\ keyUsageWindows = st.windows
      /\ gen = [c \in 1..callers |-> IdleCall]
      /\ done = IdleCall
      /\ ticks = 0
      /\ calls = 0
      /\ lastAcquire = [seq |-> 0, ok |-> FALSE, key |-> -1]
      /\ recentUses = st.uses
      /\ markedAt = [i \in 0..(n - 1) |-> -1]
      /\ exhaustedAt = -1

KeyNext ==
  \/ \E c \in Calls : GenerateStart(c) /\ UNCHANGED msgVars
  \/ \E c \in Calls, text \in UpstreamTexts : UpstreamOk(c, text) /\ UNCHANGED msgVars
  \/ \E c \in Calls, error \in UpstreamErrors : UpstreamError(c, error) /\ UNCHANGED msgVars
  \/ GetUsageStats /\ UNCHANGED msgVars
  \/ Tick /\ UNCHANGED msgVars

\* the key pool under load: a fixed pool that is fresh, or up to one round of
\* uses away from being exhausted in the current window; a ticking clock
PriorUses(n) ==
  {0} \cup {MAX_REQUESTS_PER_MINUTE * n - j : j \in 0..n}
InitPool ==
  /\ \E prior \in PriorUses(PoolKeys) : KeyInit(PoolKeys, prior, NumCalls)
  /\ TplInit([cat \in Categories |-> <<>>], 0, "welcome")
  /\ ModIdle
SpecPool == InitPool /\ [][KeyNext]_vars

\* generate() for every pool size
InitGen ==
  /\ \E n \in 0..GenKeys : \E prior \in {0, MAX_REQUESTS_PER_MINUTE * n} :
        KeyInit(n, prior, NumCalls)
  /\ TplInit([cat \in Categories |-> <<>>], 0, "welcome")
  /\ ModIdle
GenNext ==
  \/ \E c \in Calls : GenerateStart(c) /\ UNCHANGED msgVars
  \/ \E c \in Calls, text \in UpstreamTexts : UpstreamOk(c, text) /\ UNCHANGED msgVars
  \/ \E c \in Calls, error \in UpstreamErrors : UpstreamError(c, error) /\ UNCHANGED msgVars
SpecGen == InitGen /\ [][GenNext]_vars

\* the same, with fairness: an awaited upstream call eventually answers
Answer(c) ==
  /\ \/ \E text \in UpstreamTexts : UpstreamOk(c, text)
     \/ \E error \in UpstreamErrors : UpstreamError(c, error)
  /\ UNCHANGED msgVars
SpecGenFair == SpecGen /\ \A c \in 1..NumCalls : WF_vars(Answer(c))

(***************************************************************************)
(* Properties of the key pool and of generate().                           *)
(***************************************************************************)
RECURSIVE TotalUses(_, _)
TotalUses(uses, n) == IF n = 0 THEN 0 ELSE Len(uses[n - 1]) + TotalUses(uses, n - 1)

\* a step in which getNextApiKey was called
Acquisition == lastAcquire'.seq # lastAcquire.seq
\* a step in which getNextApiKey returned key k
Acquired(k) == Acquisition /\ lastAcquire'.ok /\ lastAcquire'.key = k
NoCooldown == \A k \in KeyIdx : keyUsageWindows[k].rateLimitedUntil <= now

\* C1: with no key on cooldown, an acquisition succeeds exactly when fewer
\* than 15 * K uses were made in the last 60 s: the first 15 * K acquisitions
\* of a window succeed, the next one fails with the exhaustion error, and once
\* the recorded uses are a window old an acquisition succeeds again.
C1_WindowCapacity ==
  [][Acquisition /\ NoCooldown /\ NoCooldown'
       => (lastAcquire'.ok <=>
             TotalUses(recentUses, keys) < MAX_REQUESTS_PER_MINUTE * keys)]_vars

C1_Witness ==
  /\ exhaustedAt >= 0
  /\ \A k \in KeyIdx : markedAt[k] = -1
  /\ now >= exhaustedAt + RATE_LIMIT_DURATION_MS
  /\ lastAcquire.ok
  /\ Len(recentUses[lastAcquire.key]) = 1

\* C2: a key is returned only while it is off cooldown and has had fewer than
\* 15 uses in the last 60 s, so no key ever has more than 15 uses in a window.
C2_UsableWhenReturned ==
  /\ [](\A k \in KeyIdx : Len(recentUses[k]) <= MAX_REQUESTS_PER_MINUTE)
  /\ [][\A k \in KeyIdx : Acquired(k) =>
          /\ keyUsageWindows'[k].rateLimitedUntil <= now
          /\ Len(recentUses[k]) < MAX_REQUESTS_PER_MINUTE
          /\ recentUses'[k] = Append(recentUses[k], now)]_vars

C2_Witness ==
  /\ lastAcquire.ok
  /\ Len(recentUses[lastAcquire.key]) = MAX_REQUESTS_PER_MINUTE
  /\ \E k \in KeyIdx : keyUsageWindows[k].rateLimitedUntil > now

\* C3: a key marked rate limited at time t is returned by no acquisition
\* before t + 60 s and is available again from t + 60 s on when its window
\* has room; marking changes nothing but that key's cooldown.
C3_CooldownSixtySeconds ==
  /\ [][\A k \in KeyIdx : Acquired(k) =>
          (markedAt'[k] = -1 \/ now >= markedAt'[k] + 60 * 1000)]_vars
  /\ [](\A k \in KeyIdx :
          /\ (/\ markedAt[k] >= 0
              /\ now >= markedAt[k] + 60 * 1000
              /\ Len(recentUses[k]) < MAX_REQUESTS_PER_MINUTE)
             => IsKeyAvailable(keyUsageWindows[k], now)
          /\ LET marked == MarkKeyAsRateLimited(keyUsageWindows, k, now)
             IN  /\ DOMAIN marked = KeyIdx
                 /\ marked[k].timestamps = keyUsageWindows[k].timestamps
                 /\ marked[k].rateLimitedUntil > now
                 /\ \A j \in KeyIdx \ {k} : marked[j] = keyUsageWindows[j])

C3_Witness ==
  \E k \in KeyIdx :
    /\ markedAt[k] >= 0
    /\ now = markedAt[k] + 60 * 1000
    /\ lastAcquire.ok /\ lastAcquire.key = k
    /\ recentUses[k] # <<>> /\ recentUses[k][Len(recentUses[k])] = now

\* C4 as stated: a call makes at most three attempts, whatever the number of
\* keys.
C4_AtMostThreeAttempts ==
  /\ done.attempts <= 3
  /\ \A c \in Calls : gen[c].attempts <= 3

\* C4: a call makes at most as many attempts as there are configured keys
\* (the retry budget is the number of keys, not three), it gives up on
\* rate-limit answers only after that many attempts, and it always ends:
\* a call waiting for an answer returns text or throws.
C4_AttemptsBoundedByKeys ==
  /\ [](/\ done.attempts <= keys
        /\ \A c \in Calls : /\ gen[c].attempts <= keys
                             /\ gen[c].pc = "await" => gen[c].retry < keys
        /\ (done.outcome = "thrown" /\ done.error \in {"429", "quota"})
              => done.attempts = keys
        /\ done.pc = "done" => done.outcome \in {"text", "thrown"})
  /\ \A c \in 1..NumCalls :
        (c \in Calls /\ gen[c].pc = "await") ~> (gen[c].pc = "idle")

C4_Witness ==
  /\ keys > 3
  /\ done.outcome = "thrown"
  /\ done.attempts = keys
  /\ done.error \in {"429", "quota"}

\* C5: an upstream error that is no rate-limit signal ends the call in the
\* step that receives it: the call throws that error, makes no further
\* attempt and leaves cursor, windows and cooldowns as they were; a call that
\* throws after attempts throws the error of its last attempt, unless the
\* pool ran out, when it throws the exhaustion error.
C5_FatalErrorEndsCall ==
  /\ [](/\ \A c \in Calls : gen[c].caught # "other"
        /\ (done.outcome = "thrown" /\ done.attempts > 0
               /\ done.error # ExhaustedError) => done.error = done.caught)
  /\ [][\A c \in Calls :
          (gen[c].pc = "await" /\ gen'[c].pc = "idle" /\ done'.caught = "other")
            => /\ done'.outcome = "thrown"
               /\ done'.error = "other"
               /\ done'.attempts = gen[c].attempts
               /\ UNCHANGED <<currentKeyIndex, keyUsageWindows, lastAcquire,
                              recentUses, markedAt, exhaustedAt>>]_vars

C5_Witness ==
  /\ done.outcome = "thrown"
  /\ done.error = "other"
  /\ done.attempts >= 2
  /\ done.attempts < keys

(***************************************************************************)
(* TemplatePool: get...Template() and generate...Templates().              *)
(***************************************************************************)
Allocators == DOMAIN alloc
PoolEmptyError(cat) ==
  CASE cat = "welcome" -> "No welcome templates available"
    [] cat = "morning" -> "No morning templates available"
    [] cat = "warning" -> "No warning templates available for type"

\* history: the templates of the pool with used_count < USAGE_THRESHOLD
FreshCount(rows, cat, sel) ==
  Cardinality({i \in Matching(rows, cat, sel) : rows[i].usedCount < USAGE_THRESHOLD})

keyFrame == <<keys, currentKeyIndex, keyUsageWindows, gen, done, calls,
              lastAcquire, recentUses, markedAt, exhaustedAt>>

\* getWelcomeTemplate() / getMorningMessageTemplate(mood) /
\* getWarningTemplate(type) is called (the call takes the first free slot):
\* checkAndGenerate...IfNeeded reads the flag and returns at once when it is
\* set, else issues the count query
GetTemplateUpTo(p, sel, max) ==
  /\ alloc[p].pc = "idle"
  /\ \A q \in Allocators : q < p => alloc[q].pc # "idle"
  /\ allocs < max
  /\ allocs' = allocs + 1
  /\ alloc' = [q \in Allocators |->
                 IF q = p
                 THEN [alloc[p] EXCEPT
                         !.sel = sel,
                         !.pc = IF isGenerating THEN "select" ELSE "count",
                         !.alone = \A o \in Allocators : alloc[o].pc = "idle"]
                 ELSE [alloc[q] EXCEPT !.alone = @ /\ alloc[q].pc = "idle"]]
  /\ UNCHANGED <<templates, isGenerating, served, batch, running, inserted>>
  /\ UNCHANGED <<now, ticks, keyFrame, modVars>>

GetTemplate(p, sel) == GetTemplateUpTo(p, sel, MaxAllocs)

\* the count query runs
CountAvailable(p) ==
  /\ alloc[p].pc = "count"
  /\ LET a == alloc[p]
     IN  alloc' = [alloc EXCEPT ![p] =
               [a EXCEPT !.pc = "check",
                         !.count = GetAvailableTemplateCount(templates[a.cat], a.cat, a.sel),
                         !.fresh = FreshCount(templates[a.cat], a.cat, a.sel)]]
  /\ UNCHANGED <<templates, isGenerating, served, batch, running, allocs, inserted>>
  /\ UNCHANGED <<now, ticks, keyFrame, modVars>>

\* a variant without the flag test at the top of generate...Templates
StartGenerate_NoFlagTest(cat) ==
  /\ isGenerating' = TRUE
  /\ batch' = [pc |-> "generating", cat |-> cat, round |-> 1, thrown |-> FALSE]
  /\ running' = running + 1

\* a variant whose flag test lies inside the try: the finally of a skipped
\* call clears the flag
StartGenerate_SkipClearsFlag(cat) ==
  IF isGenerating
  THEN isGenerating' = FALSE /\ UNCHANGED <<batch, running>>
  ELSE /\ isGenerating' = TRUE
       /\ batch' = [pc |-> "generating", cat |-> cat, round |-> 1, thrown |-> FALSE]
       /\ running' = running + 1

\* generate...Templates(20) up to its first await: skip when the flag is set,
\* else set it and ask geminiService for the first batch
StartGenerate(cat) ==
  IF isGenerating
  THEN UNCHANGED <<isGenerating, batch, running>>
  ELSE /\ isGenerating' = TRUE
       /\ batch' = [pc |-> "generating", cat |-> cat, round |-> 1, thrown |-> FALSE]
       /\ running' = running + 1

\* a variant that awaits the run it starts: the call stays at the check while
\* a run is in flight
CheckAndGenerate_AwaitsRun(p) ==
  /\ alloc[p].pc = "check"
  /\ IF alloc[p].count < LOW_TEMPLATE_THRESHOLD /\ ~isGenerating
     THEN /\ StartGenerate(alloc[p].cat)
          /\ alloc' = [alloc EXCEPT ![p].count = LOW_TEMPLATE_THRESHOLD]
     ELSE /\ batch.pc = "idle"
          /\ UNCHANGED <<isGenerating, batch, running>>
          /\ alloc' = [alloc EXCEPT ![p].pc = "select", ![p].count = 0, ![p].fresh = 0]
  /\ UNCHANGED <<templates, served, allocs, inserted>>
  /\ UNCHANGED <<now, ticks, keyFrame, modVars>>

\* if (availableCount < LOW_TEMPLATE_THRESHOLD) generate...Templates(20);
\* then the select of getLeastUsed...Template is issued
CheckAndGenerate(p) ==
  /\ alloc[p].pc = "check"
  /\ IF alloc[p].count < LOW_TEMPLATE_THRESHOLD
     THEN StartGenerate(alloc[p].cat)
     ELSE UNCHANGED <<isGenerating, batch, running>>
  /\ alloc' = [alloc EXCEPT ![p].pc = "select", ![p].count = 0, ![p].fresh = 0,
                            ![p].skipped = (alloc[p].count < LOW_TEMPLATE_THRESHOLD
                                              /\ isGenerating)]
  /\ UNCHANGED <<templates, served, allocs, inserted>>
  /\ UNCHANGED <<now, ticks, keyFrame, modVars>>

\* the select runs; without a row the call throws
SelectLeastUsed(p) ==
  /\ alloc[p].pc = "select"
  /\ LET a == alloc[p]
         first == GetLeastUsedTemplate(templates[a.cat], a.cat, a.sel)
     IN  IF first = {}
         THEN /\ alloc' = [alloc EXCEPT ![p] = IdleAlloc(a.cat)]
              /\ served' = [NoneServed EXCEPT !.cat = a.cat, !.sel = a.sel,
                                              !.outcome = "thrown",
                                              !.error = PoolEmptyError(a.cat)]
         ELSE /\ \E id \in first :
                   alloc' = [alloc EXCEPT
                      ![p].pc = "mark", ![p].row = id,
                      ![p].seenCount = templates[a.cat][id].usedCount,
                      ![p].selectedAt = now,
                      ![p].matching = Cardinality(Matching(templates[a.cat], a.cat, a.sel)),
                      ![p].tied = (Cardinality({j \in Matching(templates[a.cat], a.cat, a.sel) :
                                      templates[a.cat][j].usedCount
                                        = templates[a.cat][id].usedCount}) >= 2)]
              /\ UNCHANGED served
  /\ UNCHANGED <<templates, isGenerating, batch, running, allocs, inserted>>
  /\ UNCHANGED <<now, ticks, keyFrame, modVars>>

\* the instants new Date() can read from the select to the update
Stamps(from, to) == {from + k * TickMs : k \in 0..((to - from) \div TickMs)}

\* a variant that writes the used_count read by the select, plus one
MarkAsUsed_LostUpdate(p) ==
  /\ alloc[p].pc = "mark"
  /\ LET a == alloc[p]
         rows == templates[a.cat]
     IN  /\ \E later \in BOOLEAN : now' = IF later THEN now + TickMs ELSE now
         /\ \E stamp \in Stamps(a.selectedAt, now') :
               templates' = [templates EXCEPT ![a.cat] =
                               [MarkTemplateAsUsed(rows, a.row, stamp)
                                  EXCEPT ![a.row].usedCount = a.seenCount + 1]]
         /\ served' = [cat |-> a.cat, sel |-> a.sel, outcome |-> "returned",
                       error |-> "null", row |-> a.row, seenCount |-> a.seenCount,
                       alone |-> a.alone, tied |-> a.tied, matching |-> a.matching,
                       prevRow |-> IF /\ served.outcome = "returned"
                                      /\ served.cat = a.cat /\ served.sel = a.sel
                                   THEN served.row ELSE 0,
                       prevTied |-> served.tied, prevAlone |-> served.alone]
  /\ alloc' = [alloc EXCEPT ![p] = IdleAlloc(alloc[p].cat)]
  /\ UNCHANGED <<isGenerating, batch, running, allocs, inserted>>
  /\ UNCHANGED <<ticks, keyFrame, modVars>>

\* the update of mark...TemplateAsUsed runs and the selected row is returned
MarkAsUsed(p) ==
  /\ alloc[p].pc = "mark"
  /\ LET a == alloc[p]
         rows == templates[a.cat]
     IN  /\ \E later \in BOOLEAN : now' = IF later THEN now + TickMs ELSE now
         /\ \E stamp \in Stamps(a.selectedAt, now') :
               templates' = [templates EXCEPT ![a.cat] =
                               MarkTemplateAsUsed(rows, a.row, stamp)]
         /\ served' = [cat |-> a.cat, sel |-> a.sel, outcome |-> "returned",
                       error |-> "null", row |-> a.row, seenCount |-> a.seenCount,
                       alone |-> a.alone, tied |-> a.tied, matching |-> a.matching,
                       prevRow |-> IF /\ served.outcome = "returned"
                                      /\ served.cat = a.cat /\ served.sel = a.sel
                                   THEN served.row ELSE 0,
                       prevTied |-> served.tied, prevAlone |-> served.alone]
  /\ alloc' = [alloc EXCEPT ![p] = IdleAlloc(alloc[p].cat)]
  /\ UNCHANGED <<isGenerating, batch, running, allocs, inserted>>
  /\ UNCHANGED <<ticks, keyFrame, modVars>>

\* a variant whose exit leaves the flag as it is
FinishGenerate_KeepsFlag(threw) ==
  /\ isGenerating' = isGenerating
  /\ batch' = [IdleBatch EXCEPT !.thrown = threw]
  /\ running' = running - 1

\* the run leaves generate...Templates, by the outer catch (throw error) or
\* past the loops; the finally block clears the flag
FinishGenerate(threw) ==
  /\ isGenerating' = FALSE
  /\ batch' = [IdleBatch EXCEPT !.thrown = threw]
  /\ running' = running - 1

\* the for loops of generate...Templates move on to the next geminiService call
NextRound ==
  IF batch.round < Rounds(batch.cat)
  THEN /\ batch' = [batch EXCEPT !.pc = "generating", !.round = @ + 1]
       /\ UNCHANGED <<isGenerating, running>>
  ELSE FinishGenerate(FALSE)

\* geminiService.generate...Templates(batchCount) resolves with a list, the
\* rows are inserted; then the delay before the next batch, or the next round
BatchInserted(tags) ==
  /\ batch.pc = "generating"
  /\ inserted + Len(tags) <= MaxInserted
  /\ templates' = [templates EXCEPT ![batch.cat] = InsertTemplates(@, tags)]
  /\ inserted' = inserted + Len(tags)
  /\ IF BatchIndex(batch.cat, batch.round) < BatchesPerLoop(batch.cat) - 1
     THEN batch' = [batch EXCEPT !.pc = "delay"] /\ UNCHANGED <<isGenerating, running>>
     ELSE NextRound
  /\ UNCHANGED <<alloc, served, allocs>>
  /\ UNCHANGED <<now, ticks, keyFrame, modVars>>

\* await this.delay(BATCH_DELAY_MS) is over
BatchDelayDone ==
  /\ batch.pc = "delay"
  /\ NextRound
  /\ UNCHANGED <<templates, alloc, served, allocs, inserted>>
  /\ UNCHANGED <<now, ticks, keyFrame, modVars>>

\* geminiService or the insert throws: if (i === 0) throw error, else go on
BatchFailed ==
  /\ batch.pc = "generating"
  /\ IF BatchIndex(batch.cat, batch.round) = 0
     THEN FinishGenerate(TRUE)
     ELSE NextRound
  /\ UNCHANGED <<templates, alloc, served, allocs, inserted>>
  /\ UNCHANGED <<now, ticks, keyFrame, modVars>>

\* The tables of a bot that has run for a while: one table holds n rows, the
\* first two used u1 and u2 times, the others `rest` times; never-used rows
\* have no last_used_at, the others were last used one after the other (the
\* first two at the same instant when `tie` is set); the last row carries
\* another tag when `other` is set.
MainTag(cat) ==
  CASE cat = "welcome" -> "none" [] cat = "morning" -> "chill" [] cat = "warning" -> "spam"
OtherTag(cat) ==
  CASE cat = "welcome" -> "none" [] cat = "morning" -> "energetic" [] cat = "warning" -> "link"
Table(cat, n, u1, u2, rest, tie, other) ==
  [i \in 1..n |->
     LET used == IF i = 1 THEN u1 ELSE IF i = 2 THEN u2 ELSE rest
     IN  [tag |-> IF other /\ i = n THEN OtherTag(cat) ELSE MainTag(cat),
          usedCount |-> used,
          lastUsedAt |-> IF used = 0 THEN NULL
                         ELSE StartMs - TickMs + (IF tie /\ i = 2 THEN 1 ELSE i)]]

\* small tables, and tables around LOW_TEMPLATE_THRESHOLD
SmallTables(cat) ==
  {Table(cat, n, u1, u2, 0, tie, other) :
     n \in 0..2, u1 \in {0, USAGE_THRESHOLD - 1}, u2 \in {0, USAGE_THRESHOLD - 1},
     tie \in BOOLEAN, other \in BOOLEAN}
ThresholdTables(cat) ==
  {Table(cat, LOW_TEMPLATE_THRESHOLD, u1, rest, rest, FALSE, other) :
     u1 \in {0, USAGE_THRESHOLD - 1, USAGE_THRESHOLD}, rest \in {1, USAGE_THRESHOLD},
     other \in BOOLEAN}
InitTpl ==
  /\ KeyInit(0, 0, 0)
  /\ \E cat \in Categories : \E table \in SmallTables(cat) \cup ThresholdTables(cat) :
        TplInit([c \in Categories |-> IF c = cat THEN table ELSE <<>>],
                NumAllocators, cat)
  /\ ModIdle

TplNext ==
  \/ \E p \in Allocators : \E sel \in Selectors(alloc[p].cat) : GetTemplate(p, sel) /\ UNCHANGED msgVars
  \/ \E p \in Allocators : CountAvailable(p) /\ UNCHANGED msgVars
  \/ \E p \in Allocators : CheckAndGenerate(p) /\ UNCHANGED msgVars
  \/ \E p \in Allocators : SelectLeastUsed(p) /\ UNCHANGED msgVars
  \/ \E p \in Allocators : MarkAsUsed(p) /\ UNCHANGED msgVars
  \/ \E n \in 0..MaxInserted : \E tags \in [1..n -> Tags(batch.cat)] : BatchInserted(tags) /\ UNCHANGED msgVars
  \/ BatchDelayDone /\ UNCHANGED msgVars
  \/ BatchFailed /\ UNCHANGED msgVars

SpecTpl == InitTpl /\ [][TplNext]_vars

(***************************************************************************)
(* Properties of the template pools.                                       *)
(***************************************************************************)
\* the step in which caller p's select returns a row
Selects(p) == alloc[p].pc = "select" /\ alloc'[p].pc = "mark"
\* the step in which caller p's update runs and the call returns
Returns(p) == alloc[p].pc = "mark" /\ alloc'[p].pc = "idle"
\* the step in which caller p's call throws
Throws(p) == alloc[p].pc = "select" /\ alloc'[p].pc = "idle"

\* the order of the specification: ascending used_count, then ascending
\* last_used_at with never-used rows first
ComesFirst(a, b) ==
  \/ a.usedCount < b.usedCount
  \/ /\ a.usedCount = b.usedCount
     /\ a.lastUsedAt # b.lastUsedAt
     /\ a.lastUsedAt = NULL \/ (b.lastUsedAt # NULL /\ a.lastUsedAt < b.lastUsedAt)

RECURSIVE SumUsed(_)
SumUsed(rows) ==
  IF rows = <<>> THEN 0 ELSE rows[1].usedCount + SumUsed(Tail(rows))

\* C6: the row a call selects matches the selector and no matching row comes
\* before it in the order (used_count, last_used_at, never-used first); the
\* call's update adds one to that row's used_count, sets its last_used_at to
\* an instant of the call, and changes no other row of any table.
C6_LeastUsedAllocated ==
  [][\A p \in Allocators :
       LET a == alloc[p]
           rows == templates[a.cat]
       IN  /\ Selects(p) =>
                /\ alloc'[p].row \in Matching(rows, a.cat, a.sel)
                /\ \A j \in Matching(rows, a.cat, a.sel) :
                      ~ComesFirst(rows[j], rows[alloc'[p].row])
                /\ templates' = templates
           /\ Returns(p) =>
                /\ served'.row = a.row
                /\ templates'[a.cat][a.row].usedCount = rows[a.row].usedCount + 1
                /\ templates'[a.cat][a.row].lastUsedAt >= a.selectedAt
                /\ templates'[a.cat][a.row].lastUsedAt <= now'
                /\ templates'[a.cat][a.row].tag = rows[a.row].tag
                /\ DOMAIN templates'[a.cat] = DOMAIN rows
                /\ \A j \in DOMAIN rows : j # a.row => templates'[a.cat][j] = rows[j]
                /\ \A c \in Categories \ {a.cat} : templates'[c] = templates[c]]_vars

C6_Witness ==
  /\ allocs = 1
  /\ served.outcome = "returned"
  /\ LET rows == templates[served.cat]
     IN  \E j \in Matching(rows, served.cat, served.sel) :
            /\ j # served.row
            /\ rows[j].usedCount = served.seenCount
            /\ rows[j].lastUsedAt # NULL
            /\ rows[served.row].usedCount = served.seenCount + 1
            /\ rows[served.row].lastUsedAt >= StartMs

\* C7 as stated: in a pool with at least two matching templates, a call never
\* returns the template the previous call on that pool returned.
C7_NeverTwiceInARow ==
  (served.outcome = "returned" /\ served.prevRow # 0 /\ served.matching >= 2)
    => served.row # served.prevRow

\* C7: when at least two matching templates shared the smallest used_count at
\* the first of two consecutive calls on a pool, and neither call overlapped
\* another allocation, the second call returns a different template.
C7_NotTwiceAfterTie ==
  (/\ served.outcome = "returned"
   /\ served.prevRow # 0
   /\ served.prevTied /\ served.prevAlone /\ served.alone)
    => served.row # served.prevRow

C7_Witness ==
  /\ served.outcome = "returned"
  /\ served.prevRow # 0
  /\ served.prevTied /\ served.prevAlone /\ served.alone
  /\ served.row # served.prevRow

\* C8: a completed call raises the used_count of the row it returns by one and
\* the sum of used_count over its table by one, whatever other calls are in
\* flight; no other step changes the sum, and no step lowers a used_count or
\* removes a row.
C8_UsedCountGrowsByOne ==
  [][/\ \A c \in Categories :
          /\ \A i \in DOMAIN templates[c] :
                /\ i \in DOMAIN templates'[c]
                /\ templates'[c][i].usedCount >= templates[c][i].usedCount
          /\ SumUsed(templates'[c]) =
               SumUsed(templates[c])
                 + Cardinality({p \in Allocators : Returns(p) /\ alloc[p].cat = c})
     /\ \A p \in Allocators :
          Returns(p) =>
            templates'[alloc[p].cat][alloc[p].row].usedCount
              = templates[alloc[p].cat][alloc[p].row].usedCount + 1]_vars

C8_Witness ==
  /\ served.outcome = "returned"
  /\ ~served.alone
  /\ served.prevRow = served.row
  /\ templates[served.cat][served.row].usedCount = served.seenCount + 2

\* C9: a call whose select finds no template matching the selector throws the
\* "no templates available" error of its category to the caller, and only
\* then; no step of a call other than the update of a found row changes a table.
C9_PoolEmptyThrown ==
  /\ [](served.outcome = "thrown" =>
          served.row = 0 /\ served.error = PoolEmptyError(served.cat))
  /\ [][\A p \in Allocators :
          LET a == alloc[p]
          IN  /\ (a.pc = "select" /\ alloc'[p].pc # a.pc) =>
                   (Throws(p) <=> Matching(templates[a.cat], a.cat, a.sel) = {})
              /\ Throws(p) =>
                   /\ served'.outcome = "thrown"
                   /\ served'.cat = a.cat /\ served'.sel = a.sel
                   /\ served'.error = PoolEmptyError(a.cat)
              /\ (alloc'[p] # a /\ ~Returns(p)) => templates' = templates]_vars

C9_Witness ==
  /\ served.outcome = "thrown"
  /\ served.cat \in {"welcome", "warning"}
  /\ served.error = PoolEmptyError(served.cat)
  /\ served.cat = "warning" => templates["warning"] # <<>>

\* the step in which caller p's checkAndGenerate...IfNeeded decides
Checks(p) == alloc[p].pc = "check" /\ alloc'[p].pc = "select"

\* C10 as stated: in every category a check starts a generation exactly when
\* fewer than LOW_TEMPLATE_THRESHOLD matching templates have
\* used_count < USAGE_THRESHOLD and no generation is running.
C10_StartsWhenFreshLow ==
  [][\A p \in Allocators :
       Checks(p) =>
         ((batch' # batch /\ isGenerating')
            <=> (alloc[p].fresh < LOW_TEMPLATE_THRESHOLD /\ ~isGenerating))]_vars

\* the step in which a generate...Templates run inserts rows
Inserts == \E c \in Categories : Len(templates'[c]) > Len(templates[c])

\* C11: at most one generate...Templates run is between its start and its
\* exit; a caller that passed the flag test of checkAndGenerate...IfNeeded
\* and reaches generate...Templates while a run is in flight starts nothing
\* and changes nothing; rows are inserted only by the one run in flight.
C11_OneRunInFlight ==
  /\ [](running <= 1)
  /\ [][/\ \A p \in Allocators :
            (Checks(p) /\ isGenerating) =>
              /\ UNCHANGED <<isGenerating, batch, running, templates, inserted>>
              /\ alloc'[p].skipped <=> alloc[p].count < LOW_TEMPLATE_THRESHOLD
       /\ Inserts => (running = 1 /\ batch.pc = "generating")]_vars

C11_Witness ==
  /\ running = 1
  /\ batch.pc = "generating"
  /\ \E p \in Allocators : alloc[p].skipped /\ alloc[p].pc = "select"
  /\ \E q \in Allocators : ~alloc[q].skipped /\ alloc[q].pc \in {"select", "mark"}

\* the step in which the generate...Templates run exits
RunEnds == batch.pc # "idle" /\ batch'.pc = "idle"

\* C12: the step in which a generate...Templates run exits, after its last
\* batch, after a failed later batch or on the throw of a first batch, leaves
\* the flag false; the flag is never true without a run in flight, and a
\* check that finds the count low while no run is in flight starts a run.
C12_FlagClearedOnExit ==
  /\ [](batch.pc = "idle" => ~isGenerating)
  /\ [][/\ RunEnds => (~isGenerating' /\ running' = 0)
       /\ \A p \in Allocators :
            (Checks(p) /\ batch.pc = "idle"
               /\ alloc[p].count < LOW_TEMPLATE_THRESHOLD) =>
              (isGenerating' /\ batch'.pc = "generating" /\ batch'.round = 1)]_vars

\* a welcome run inserted a row, went on and exited, and a later call
\* started the next run
C12_Witness ==
  /\ batch.cat = "welcome" /\ batch.pc = "generating" /\ batch.round = 1
  /\ inserted = 1
  /\ isGenerating
  /\ allocs = 2

\* the rows of a table that the generate...Templates runs inserted
InsertedRows(cat) ==
  {i \in DOMAIN templates[cat] : i > Len(templates[cat]) - inserted}

\* C13: every row a generate...Templates run inserts has used_count 0 and no
\* last_used_at, and the insert changes no existing row; while an inserted
\* row that matches a call's selector has never been used, the call's select
\* returns a row with used_count 0, never one with a higher used_count.
C13_FreshBeforeUsed ==
  [][/\ \A c \in Categories :
          Len(templates'[c]) > Len(templates[c]) =>
            /\ \A i \in DOMAIN templates[c] : templates'[c][i] = templates[c][i]
            /\ \A i \in (DOMAIN templates'[c]) \ (DOMAIN templates[c]) :
                  /\ templates'[c][i].usedCount = 0
                  /\ templates'[c][i].lastUsedAt = NULL
     /\ \A p \in Allocators :
          LET a == alloc[p]
              rows == templates[a.cat]
          IN  (/\ Selects(p)
               /\ \E j \in InsertedRows(a.cat) \cap Matching(rows, a.cat, a.sel) :
                     rows[j].usedCount = 0) =>
                rows[alloc'[p].row].usedCount = 0]_vars

\* a call returned the inserted row while an older matching row had been used
C13_Witness ==
  /\ served.outcome = "returned"
  /\ inserted = 1
  /\ served.row \in InsertedRows(served.cat)
  /\ served.seenCount = 0
  /\ \E j \in Matching(templates[served.cat], served.cat, served.sel) :
        /\ j < served.row
        /\ templates[served.cat][j].usedCount > 1
        /\ templates[served.cat][j].lastUsedAt < StartMs

\* C14 as stated: a getWarningTemplate call never ends with the "no warning
\* templates available" error; a call that finds no template of its type
\* returns a template all the same.
C14_WarningNeverPoolEmpty ==
  [][\A p \in Allocators :
       (alloc[p].cat = "warning" /\ alloc[p].pc = "select" /\ alloc'[p].pc # "select")
         => (alloc'[p].pc = "mark" /\ served'.outcome # "thrown")]_vars

\* C15 as stated: a getMorningMessageTemplate call that finds no template of
\* the requested mood does not end with an error.
C15_MorningFallsBack ==
  ~(/\ served.outcome = "thrown"
    /\ served.cat = "morning"
    /\ Matching(templates["morning"], "morning", served.sel) = {})

(***************************************************************************)
(* ViolationDetector: checkSpam() and cache.increment().                   *)
(***************************************************************************)
SpamChecks == DOMAIN spamCheck
SpamTickMs == (SPAM_CONFIG.timeWindowSeconds * 1000) \div 2

\* checkSpam(message) is called (the call takes the first free slot) and
\* Redis executes the INCR of cache.increment
CheckSpam(h, guildId, userId) ==
  /\ spamCheck[h].pc = "idle"
  /\ \A q \in SpamChecks : q < h => spamCheck[q].pc # "idle"
  /\ messages < MaxMessages
  /\ messages' = messages + 1
  /\ LET key == CreateSpamCacheKey(guildId, userId)
         c == RedisIncr(counters[key], now)
     IN  /\ counters' = [counters EXCEPT ![key] = c]
         /\ arrivals' = [arrivals EXCEPT ![key] = Append(@, now)]
         /\ spamCheck' = [spamCheck EXCEPT ![h] =
                            [pc |-> "incremented", key |-> key, count |-> c.count,
                             nth |-> Len(arrivals[key]) + 1]]
  /\ UNCHANGED <<faulted, verdict>>
  /\ UNCHANGED <<now, ticks, keyFrame, tplVars, escVars>>

\* checkSpam(message) is called and redis.incr rejects: the catch of
\* cache.increment returns 0
IncrFails(h, guildId, userId) ==
  /\ spamCheck[h].pc = "idle"
  /\ \A q \in SpamChecks : q < h => spamCheck[q].pc # "idle"
  /\ messages < MaxMessages
  /\ messages' = messages + 1
  /\ verdict' = [key |-> CreateSpamCacheKey(guildId, userId), outcome |-> "failed",
                 count |-> 0, isSpam |-> IsSpam(0), nth |-> 0]
  /\ UNCHANGED <<counters, spamCheck, arrivals, faulted>>
  /\ UNCHANGED <<now, ticks, keyFrame, tplVars, escVars>>

\* redis.incr resolved: on the first increment Redis executes the EXPIRE; then
\* cache.increment returns the count and checkSpam compares it with the limit
Incremented(h) ==
  /\ spamCheck[h].pc = "incremented"
  /\ LET a == spamCheck[h]
     IN  /\ counters' = IF a.count = 1
                        THEN [counters EXCEPT ![a.key] =
                                RedisExpire(@, now, SPAM_CONFIG.timeWindowSeconds)]
                        ELSE counters
         /\ verdict' = [key |-> a.key, outcome |-> "counted", count |-> a.count,
                        isSpam |-> IsSpam(a.count), nth |-> a.nth]
  /\ spamCheck' = [spamCheck EXCEPT ![h] = IdleSpamCheck]
  /\ UNCHANGED <<arrivals, faulted, messages>>
  /\ UNCHANGED <<now, ticks, keyFrame, tplVars, escVars>>

\* redis.expire rejects after the first increment: the catch returns 0
ExpireFails(h) ==
  /\ spamCheck[h].pc = "incremented"
  /\ spamCheck[h].count = 1
  /\ faulted' = faulted \cup {spamCheck[h].key}
  /\ verdict' = [key |-> spamCheck[h].key, outcome |-> "failed", count |-> 0,
                 isSpam |-> IsSpam(0), nth |-> spamCheck[h].nth]
  /\ spamCheck' = [spamCheck EXCEPT ![h] = IdleSpamCheck]
  /\ UNCHANGED <<counters, arrivals, messages>>
  /\ UNCHANGED <<now, ticks, keyFrame, tplVars, escVars>>

\* Time passes by half a spam window and Redis drops the keys that expired.
\* The clock is coarser than a Redis round trip: it does not advance between
\* an INCR and the EXPIRE that follows it.
SpamTick ==
  /\ ticks < MaxSpamTicks
  /\ \A h \in SpamChecks : ~(spamCheck[h].pc = "incremented" /\ spamCheck[h].count = 1)
  /\ ticks' = ticks + 1
  /\ now' = now + SpamTickMs
  /\ counters' = [k \in SpamKeys |->
                    IF Live(counters[k], now') THEN counters[k] ELSE NoCounter]
  /\ UNCHANGED <<spamCheck, arrivals, faulted, verdict, messages>>
  /\ UNCHANGED <<keyFrame, tplVars, escVars>>

InitSpam ==
  /\ KeyInit(0, 0, 0)
  /\ TplInit([cat \in Categories |-> <<>>], 0, "welcome")
  /\ \E prior \in {0, SPAM_CONFIG.messageLimit - 1} : SpamInit(NumSpamChecks, prior)
  /\ EscInit(<<>>, {}, 0)
  /\ MsgInit(0)

SpamNext ==
  \/ \E h \in SpamChecks, a \in Authors : CheckSpam(h, a[1], a[2]) /\ UNCHANGED msgVars
  \/ \E h \in SpamChecks, a \in Authors : IncrFails(h, a[1], a[2]) /\ UNCHANGED msgVars
  \/ \E h \in SpamChecks : Incremented(h) /\ UNCHANGED msgVars
  \/ \E h \in SpamChecks : ExpireFails(h) /\ UNCHANGED msgVars
  \/ SpamTick /\ UNCHANGED msgVars

SpecSpam == InitSpam /\ [][SpamNext]_vars

(***************************************************************************)
(* Properties of the spam counter.                                         *)
(***************************************************************************)
\* the fixed window of the specification: the window of the k-th counted
\* message starts at the first message counted after the previous window ended
RECURSIVE WindowStart(_, _)
WindowStart(times, k) ==
  IF k = 1
  THEN times[1]
  ELSE LET start == WindowStart(times, k - 1)
       IN  IF times[k] < start + SPAM_CONFIG.timeWindowSeconds * 1000
           THEN start ELSE times[k]
\* the position of the k-th counted message in its window
WindowPosition(times, k) ==
  Cardinality({i \in 1..k : WindowStart(times, i) = WindowStart(times, k)})

Handlers == DOMAIN handling
LedgerTickMs == (MODERATION_CONFIG.warningWindowDays * DayMs) \div 2
\* the members whose messages violate a rule
Offenders == {<<"g1", "u1">>, <<"g1", "u2">>}
escFrame == <<keyFrame, spamVars, served, alloc, allocs, inserted, generalChannels>>
tplFrame == <<templates, isGenerating, batch, running>>

\* handleSpam / handleBadword / handleUnauthorizedLink(message) is called (the
\* call takes the first free slot) and issues message.delete()
HandleViolationUpTo(h, guildId, userId, type, max) ==
  /\ handling[h].pc = "idle"
  /\ \A q \in Handlers : q < h => handling[q].pc # "idle"
  /\ violations < max
  /\ violations' = violations + 1
  /\ handling' = [handling EXCEPT ![h] =
                    [IdleHandler EXCEPT !.pc = "delete", !.guildId = guildId,
                                        !.userId = userId, !.type = type]]
  /\ UNCHANGED <<ledger, timeouts>>
  /\ UNCHANGED <<now, ticks, escFrame, tplFrame>>

HandleViolation(h, guildId, userId, type) ==
  HandleViolationUpTo(h, guildId, userId, type, MaxViolations)

\* a variant whose handlers go on after a step that rejected
Proceed_IgnoresFailure(h, ok, next) ==
  handling' = [handling EXCEPT ![h] = next]

\* the step of handler h settles: it goes on to `next` when the awaited call
\* resolved, and ends in the catch block, which logs, when it rejected
Proceed(h, ok, next) ==
  handling' = [handling EXCEPT ![h] = IF ok THEN next ELSE IdleHandler]

\* await message.delete() settles
MessageDeleted(h, ok) ==
  /\ handling[h].pc = "delete"
  /\ Proceed(h, ok, [handling[h] EXCEPT !.deleted = TRUE,
                                        !.pc = AfterDelete(handling[h].type)])
  /\ UNCHANGED <<ledger, timeouts, violations>>
  /\ UNCHANGED <<now, ticks, escFrame, tplFrame>>

\* the count query of getWarningCount settles and shouldEscalateToHeez decides
WarningsCounted(h, ok) ==
  /\ handling[h].pc = "count"
  /\ LET a == handling[h]
         n == GetWarningCount(ledger, a.userId, a.guildId, now)
     IN  Proceed(h, ok, [a EXCEPT !.warningCount = n,
                                  !.pc = IF ShouldEscalateToHeez(n)
                                         THEN "timeout" ELSE "template"])
  /\ UNCHANGED <<ledger, timeouts, violations>>
  /\ UNCHANGED <<now, ticks, escFrame, tplFrame>>

\* await member.timeout(timeoutDurationMs, ...) settles; a rejection ends
\* escalateToHeez in its catch. Then sendEscalationNotification looks for the
\* general channel and posts to it, if there is one.
MemberTimedOut(h, ok) ==
  /\ handling[h].pc = "timeout"
  /\ LET a == handling[h]
     IN  /\ Proceed(h, ok, [a EXCEPT !.timedOut = TRUE,
                                     !.pc = IF a.guildId \in generalChannels
                                            THEN "notify" ELSE "recordEscalation"])
         /\ timeouts' = IF ok
                        THEN [timeouts EXCEPT ![<<a.guildId, a.userId>>] =
                                now + MODERATION_CONFIG.timeoutDurationMs]
                        ELSE timeouts
  /\ UNCHANGED <<ledger, violations>>
  /\ UNCHANGED <<now, ticks, escFrame, tplFrame>>

\* await channel.send(message) of sendEscalationNotification settles
NotificationSent(h, ok) ==
  /\ handling[h].pc = "notify"
  /\ Proceed(h, ok, [handling[h] EXCEPT !.notified = TRUE, !.pc = "recordEscalation"])
  /\ UNCHANGED <<ledger, timeouts, violations>>
  /\ UNCHANGED <<now, ticks, escFrame, tplFrame>>

\* the insert of recordEscalation settles and the handler returns
EscalationRecorded(h, ok) ==
  /\ handling[h].pc = "recordEscalation"
  /\ LET a == handling[h]
     IN  ledger' = IF ok
                   THEN Append(ledger, NewEscalation(a.userId, a.guildId, a.type, now))
                   ELSE ledger
  /\ handling' = [handling EXCEPT ![h] = IdleHandler]
  /\ UNCHANGED <<timeouts, violations>>
  /\ UNCHANGED <<now, ticks, escFrame, tplFrame>>

\* a variant in which the allocation answers with no template instead of
\* throwing: sendSoftWarning logs and returns, and the handler goes on
TemplateAllocated_NoTemplateReturns(h) ==
  /\ handling[h].pc = "template"
  /\ LET a == handling[h]
         rows == templates["warning"]
         first == GetLeastUsedTemplate(rows, "warning", a.type)
     IN  /\ IF /\ ~isGenerating
               /\ GetAvailableTemplateCount(rows, "warning", a.type) < LOW_TEMPLATE_THRESHOLD
            THEN StartGenerate("warning")
            ELSE UNCHANGED <<isGenerating, batch, running>>
         /\ IF first = {}
            THEN /\ handling' = [handling EXCEPT ![h] =
                                   IF AfterWarningSent(a.type) = "done"
                                   THEN IdleHandler ELSE [a EXCEPT !.pc = "record"]]
                 /\ UNCHANGED templates
            ELSE /\ \E id \in first :
                      templates' = [templates EXCEPT !["warning"] =
                                      MarkTemplateAsUsed(rows, id, now)]
                 /\ handling' = [handling EXCEPT ![h].pc = "send"]
  /\ UNCHANGED <<ledger, timeouts, violations>>
  /\ UNCHANGED <<now, ticks, escFrame>>

\* templateService.getWarningTemplate(type) of sendSoftWarning, its queries
\* run one after the other: the check may start a generation, the select
\* throws when no template of the type exists (the handler's catch logs it),
\* else the row is marked as used and the warning is sent
TemplateAllocated(h) ==
  /\ handling[h].pc = "template"
  /\ LET a == handling[h]
         rows == templates["warning"]
         first == GetLeastUsedTemplate(rows, "warning", a.type)
     IN  /\ IF /\ ~isGenerating
               /\ GetAvailableTemplateCount(rows, "warning", a.type) < LOW_TEMPLATE_THRESHOLD
            THEN StartGenerate("warning")
            ELSE UNCHANGED <<isGenerating, batch, running>>
         /\ IF first = {}
            THEN /\ handling' = [handling EXCEPT ![h] = IdleHandler]
                 /\ UNCHANGED templates
            ELSE /\ \E id \in first :
                      templates' = [templates EXCEPT !["warning"] =
                                      MarkTemplateAsUsed(rows, id, now)]
                 /\ handling' = [handling EXCEPT ![h].pc = "send"]
  /\ UNCHANGED <<ledger, timeouts, violations>>
  /\ UNCHANGED <<now, ticks, escFrame>>

\* await message.channel.send(...) of sendSoftWarning settles
WarningSent(h, ok) ==
  /\ handling[h].pc = "send"
  /\ LET a == handling[h]
     IN  Proceed(h, ok, IF AfterWarningSent(a.type) = "done"
                        THEN IdleHandler
                        ELSE [a EXCEPT !.sent = TRUE, !.pc = "record"])
  /\ UNCHANGED <<ledger, timeouts, violations>>
  /\ UNCHANGED <<now, ticks, escFrame, tplFrame>>

\* the insert of recordWarning settles and the handler returns
WarningRecorded(h, ok) ==
  /\ handling[h].pc = "record"
  /\ LET a == handling[h]
     IN  ledger' = IF ok
                   THEN Append(ledger, NewWarning(a.userId, a.guildId, a.type, now))
                   ELSE ledger
  /\ handling' = [handling EXCEPT ![h] = IdleHandler]
  /\ UNCHANGED <<timeouts, violations>>
  /\ UNCHANGED <<now, ticks, escFrame, tplFrame>>

\* time passes by half a warning window
LedgerTick ==
  /\ ticks < MaxLedgerTicks
  /\ ticks' = ticks + 1
  /\ now' = now + LedgerTickMs
  /\ UNCHANGED <<keyFrame, tplVars, modVars>>

\* the ledger of a bot that has run for a while: `k` soft warnings of member
\* u1 of g1, `age` old; with `noise`, as many escalation rows of that member
\* and soft warnings of two other members as the threshold, all recent
PriorRows(k, age, noise) ==
  LET others == IF noise THEN MODERATION_CONFIG.warningThreshold ELSE 0
  IN  [i \in 1..k |-> NewWarning("u1", "g1", "spam", StartMs - age)]
      \o [i \in 1..others |-> NewEscalation("u1", "g1", "spam", StartMs - 1)]
      \o [i \in 1..others |-> NewWarning("u2", "g1", "badword", StartMs - 1)]
      \o [i \in 1..others |-> NewWarning("u1", "g2", "badword", StartMs - 1)]
Ledgers ==
  {PriorRows(k, age, noise) :
     k \in {0, 2, 3}, age \in {LedgerTickMs, 3 * LedgerTickMs}, noise \in BOOLEAN}
\* warning_templates with two rows per type, one of them used before, or empty
WarningTables ==
  {<<>>,
   [i \in 1..6 |-> [tag |-> IF i <= 2 THEN "spam" ELSE IF i <= 4 THEN "badword" ELSE "link",
                    usedCount |-> i % 2,
                    lastUsedAt |-> IF i % 2 = 0 THEN NULL ELSE StartMs - 1]]}

InitEsc ==
  /\ KeyInit(0, 0, 0)
  /\ \E table \in WarningTables :
        TplInit([c \in Categories |-> IF c = "warning" THEN table ELSE <<>>], 0, "warning")
  /\ SpamInit(0, 0)
  /\ \E rows \in Ledgers, general \in {{}, Guilds} : EscInit(rows, general, NumHandlers)
  /\ MsgInit(0)

EscNext ==
  \/ \E h \in Handlers, a \in Offenders, type \in ViolationTypes :
        HandleViolation(h, a[1], a[2], type) /\ UNCHANGED msgVars
  \/ \E h \in Handlers, ok \in BOOLEAN : MessageDeleted(h, ok) /\ UNCHANGED msgVars
  \/ \E h \in Handlers, ok \in BOOLEAN : WarningsCounted(h, ok) /\ UNCHANGED msgVars
  \/ \E h \in Handlers, ok \in BOOLEAN : MemberTimedOut(h, ok) /\ UNCHANGED msgVars
  \/ \E h \in Handlers, ok \in BOOLEAN : NotificationSent(h, ok) /\ UNCHANGED msgVars
  \/ \E h \in Handlers, ok \in BOOLEAN : EscalationRecorded(h, ok) /\ UNCHANGED msgVars
  \/ \E h \in Handlers : TemplateAllocated(h) /\ UNCHANGED msgVars
  \/ \E h \in Handlers, ok \in BOOLEAN : WarningSent(h, ok) /\ UNCHANGED msgVars
  \/ \E h \in Handlers, ok \in BOOLEAN : WarningRecorded(h, ok) /\ UNCHANGED msgVars
  \/ BatchInserted(<<>>) /\ UNCHANGED msgVars
  \/ BatchDelayDone /\ UNCHANGED msgVars
  \/ BatchFailed /\ UNCHANGED msgVars
  \/ LedgerTick /\ UNCHANGED msgVars

SpecEsc == InitEsc /\ [][EscNext]_vars

(***************************************************************************)
(* Properties of the escalation engine.                                    *)
(***************************************************************************)
\* the step in which handler h's count query settled and the handler decided
Decides(h) == handling[h].pc = "count" /\ handling'[h].pc \in {"timeout", "template"}
\* the step in which handler h, every step of it having succeeded, writes its
\* escalation row / its soft-warning row and returns
EscalationDone(h) ==
  handling[h].pc = "recordEscalation" /\ handling'[h].pc = "idle" /\ ledger' # ledger
SoftWarningDone(h) ==
  handling[h].pc = "record" /\ handling'[h].pc = "idle" /\ ledger' # ledger
\* the soft warnings of the specification: rows of the member in the guild by
\* the soft-warning issuer, at most 7 days old
SoftInWindow(rows, userId, guildId, t) ==
  Len(SelectSeq(rows, LAMBDA r : /\ r.userId = userId /\ r.guildId = guildId
                                 /\ r.warnedBy = "shee"
                                 /\ t - r.createdAt <= 7 * DayMs))
InRun(r) == r.createdAt >= StartMs

C18_ThirdViolationEscalates ==
  [][\A h \in Handlers :
       LET a == handling[h]
       IN  /\ (Decides(h) /\ SoftInWindow(ledger, a.userId, a.guildId, now) = 2) =>
                handling'[h].pc = "timeout"
           /\ SoftWarningDone(h) => a.warningCount # 2]_vars

\* C19: the count a handler obtains is the number of ledger rows of the same
\* user and guild, by the soft-warning issuer, at most 7 days old; rows of
\* other users or guilds, rows of the escalation issuer and older rows do not
\* count, and the handler escalates exactly when that number is at least 3.
C19_CountsSoftRowsInWindow ==
  [][\A h \in Handlers :
       LET a == handling[h]
       IN  Decides(h) =>
             /\ handling'[h].warningCount = SoftInWindow(ledger, a.userId, a.guildId, now)
             /\ handling'[h].pc = "timeout"
                  <=> SoftInWindow(ledger, a.userId, a.guildId, now) >= 3]_vars

\* a member whose three soft warnings are all older than the window, and who
\* has recent escalation rows beside recent soft warnings of other members, is
\* counted as having none
C19_Witness ==
  \E h \in Handlers :
    LET a == handling[h]
    IN  /\ a.pc = "template" /\ a.type # "link"
        /\ a.warningCount = 0
        /\ Cardinality({i \in DOMAIN ledger :
              /\ ledger[i].userId = a.userId /\ ledger[i].guildId = a.guildId
              /\ ledger[i].warnedBy = "shee"
              /\ ledger[i].createdAt < now - 7 * DayMs}) >= 3
        /\ \E i \in DOMAIN ledger :
              /\ ledger[i].userId = a.userId /\ ledger[i].guildId = a.guildId
              /\ ledger[i].warnedBy = "heez" /\ ledger[i].createdAt >= now - 7 * DayMs
        /\ \E i \in DOMAIN ledger : ledger[i].userId # a.userId
        /\ \E i \in DOMAIN ledger : ledger[i].guildId # a.guildId

\* C20: no step of a link handler times a member out or writes the ledger,
\* and a link handler never counts warnings, escalates or records; so the
\* soft-warning count of every member is the same after each of its steps.
C20_LinkLeavesLedger ==
  [][\A h \in Handlers :
       LET a == handling[h]
       IN  (a.pc # "idle" /\ a.type = "link" /\ handling'[h] # a) =>
             /\ ledger' = ledger
             /\ timeouts' = timeouts
             /\ handling'[h].pc \in {"template", "send", "idle"}
             /\ \A m \in Authors :
                  GetWarningCount(ledger', m[2], m[1], now')
                    = GetWarningCount(ledger, m[2], m[1], now)]_vars

\* two link violations of members with three soft warnings in the window
\* were handled to the end: both link templates were used in the run, no row
\* was written and no member is timed out
C20_Witness ==
  /\ violations = 2
  /\ \A h \in Handlers : handling[h].pc = "idle"
  /\ \A o \in Offenders : GetWarningCount(ledger, o[2], o[1], now) >= 3
  /\ \A i \in DOMAIN templates["warning"] :
        templates["warning"][i].tag = "link" =>
          templates["warning"][i].lastUsedAt >= StartMs
  /\ \A i \in DOMAIN ledger : ~InRun(ledger[i])
  /\ \A m \in Authors : timeouts[m] = 0

(***************************************************************************)
(* Replenishment runs in the background of the allocation.                 *)
(***************************************************************************)
\* the next step of a get...Template() call in flight
Continues(p) ==
  CountAvailable(p) \/ CheckAndGenerate(p) \/ SelectLeastUsed(p) \/ MarkAsUsed(p)

\* C27: get...Template() never waits for the generate...Templates run it
\* triggers. At every point of a call in flight its next step can be taken,
\* whatever the run is doing; the select takes a first row of the table as it
\* is at that moment and throws exactly when no row matches then; and the
\* call returns the row it selected without touching the run.
C27_ServedWithoutWaiting ==
  /\ [](\A p \in Allocators : alloc[p].pc # "idle" => ENABLED Continues(p))
  /\ [][\A p \in Allocators :
          LET a == alloc[p]
          IN  /\ Selects(p) =>
                   alloc'[p].row \in GetLeastUsedTemplate(templates[a.cat], a.cat, a.sel)
              /\ Throws(p) => Matching(templates[a.cat], a.cat, a.sel) = {}
              /\ Returns(p) => /\ served'.outcome = "returned"
                               /\ served'.row = a.row
                               /\ batch' = batch /\ isGenerating' = isGenerating]_vars

\* the only call made so far triggered a run and has returned a template
\* while that run is still waiting for its first batch
C27_Witness ==
  /\ allocs = 1 /\ served.outcome = "returned"
  /\ running = 1 /\ batch.pc = "generating" /\ batch.round = 1
  /\ inserted = 0

(***************************************************************************)
(* Two pools in use at once: one caller per pool.                          *)
(***************************************************************************)
\* a table of n rows that were never used
FreshTable(cat, n) == Table(cat, n, 0, 0, 0, FALSE, FALSE)

InitMix ==
  /\ KeyInit(0, 0, 0)
  /\ \E c1 \in Categories : \E c2 \in Categories \ {c1} :
       \E n1 \in 0..2 : \E n2 \in 0..2 :
          /\ templates = [c \in Categories |->
                            IF c = c1 THEN FreshTable(c1, n1)
                            ELSE IF c = c2 THEN FreshTable(c2, n2) ELSE <<>>]
          /\ alloc = <<IdleAlloc(c1), IdleAlloc(c2)>>
  /\ isGenerating = FALSE
  /\ served = NoneServed
  /\ batch = IdleBatch
  /\ running = 0
  /\ allocs = 0
  /\ inserted = 0
  /\ ModIdle

SpecMix == InitMix /\ [][TplNext]_vars

\* a get...Template() call enters checkAndGenerate...IfNeeded
CallStarts(p) == alloc[p].pc = "idle" /\ alloc'[p].pc # "idle"
\* a run for another pool than the caller's is in flight
OtherPoolRuns(p) == batch.pc # "idle" /\ batch.cat # alloc[p].cat

\* C28: the in-progress guard is per pool. While a run for another pool is in
\* flight, a call for this pool still issues its count query, and when the
\* count is below LOW_TEMPLATE_THRESHOLD a run for this pool starts.
C28_GuardPerPool ==
  [][\A p \in Allocators :
       /\ (CallStarts(p) /\ OtherPoolRuns(p)) => alloc'[p].pc = "count"
       /\ (Checks(p) /\ OtherPoolRuns(p) /\ alloc[p].count < LOW_TEMPLATE_THRESHOLD)
            => (running' = running + 1 /\ batch'.cat = alloc[p].cat)]_vars

(***************************************************************************)
(* Partial failure of a generate...Templates run.                          *)
(***************************************************************************)
\* the rows of every table are still there after the step
RowsKept ==
  \A c \in Categories : \A i \in DOMAIN templates[c] :
     i \in DOMAIN templates'[c] /\ templates'[c][i].tag = templates[c][i].tag

\* C29: a generate...Templates run makes one geminiService call per batch;
\* it rejects only when its first call fails, and then it has inserted
\* nothing; a failure of any later call is skipped, the run goes on to the
\* remaining calls; rows inserted earlier stay in the table.
C29_OnlyFirstBatchFatal ==
  [][/\ (batch.pc = "generating" /\ batch'.pc = "generating" /\ batch' # batch)
          => (batch'.cat = batch.cat /\ batch'.round = batch.round + 1)
     /\ (RunEnds /\ batch'.thrown)
          => (batch.round = 1 /\ templates' = templates)
     /\ (RunEnds /\ ~batch'.thrown) => batch.round = Rounds(batch.cat)
     /\ RowsKept]_vars

(***************************************************************************)
(* One caller allocating again and again from a uniform table.             *)
(***************************************************************************)
\* tables whose rows were all used u times (the last row of another tag
\* when `other` is set)
UniformTables(cat) ==
  {Table(cat, n, u, u, u, FALSE, other) : n \in 1..3, u \in 0..1, other \in BOOLEAN}

InitSeq ==
  /\ KeyInit(0, 0, 0)
  /\ \E cat \in Categories : \E table \in UniformTables(cat) :
        TplInit([c \in Categories |-> IF c = cat THEN table ELSE <<>>], 1, cat)
  /\ ModIdle

\* the runs the calls trigger fail or come back with an empty list, so no row
\* is inserted
SeqNext ==
  \/ \E p \in Allocators : \E sel \in Selectors(alloc[p].cat) :
        GetTemplateUpTo(p, sel, MaxSeqAllocs) /\ UNCHANGED msgVars
  \/ \E p \in Allocators : CountAvailable(p) /\ UNCHANGED msgVars
  \/ \E p \in Allocators : CheckAndGenerate(p) /\ UNCHANGED msgVars
  \/ \E p \in Allocators : SelectLeastUsed(p) /\ UNCHANGED msgVars
  \/ \E p \in Allocators : MarkAsUsed(p) /\ UNCHANGED msgVars
  \/ BatchInserted(<<>>) /\ UNCHANGED msgVars
  \/ BatchDelayDone /\ UNCHANGED msgVars
  \/ BatchFailed /\ UNCHANGED msgVars

SpecSeq == InitSeq /\ [][SeqNext]_vars

\* the used_count values of the rows a selector matches differ by at most 1
Balanced(rows, cat, sel) ==
  \A i \in Matching(rows, cat, sel) : \A j \in Matching(rows, cat, sel) :
     rows[i].usedCount <= rows[j].usedCount + 1
\* the selector that matches exactly the rows of one tag
TagSelector(cat, tag) == IF cat = "welcome" THEN "any" ELSE tag

\* C30: one caller allocating sequentially from a table whose rows start with
\* the same used_count, nothing being inserted: the rows of a pool never
\* differ by more than 1 in used_count, each allocation takes a row of the
\* lowest used_count of its pool, and it leaves its pool balanced when it
\* found it balanced.
C30_BalancedUse ==
  /\ []((Cardinality(Allocators) = 1 /\ inserted = 0) =>
          \A c \in Categories : \A tag \in Tags(c) :
             Balanced(templates[c], c, TagSelector(c, tag)))
  /\ [][\A p \in Allocators :
          LET a == alloc[p]
          IN  (Cardinality(Allocators) = 1 /\ inserted' = 0 /\ Returns(p)) =>
                /\ \A j \in Matching(templates[a.cat], a.cat, a.sel) :
                      templates[a.cat][a.row].usedCount <= templates[a.cat][j].usedCount
                /\ Balanced(templates[a.cat], a.cat, a.sel)
                     => Balanced(templates'[a.cat], a.cat, a.sel)]_vars

\* three welcome rows that started unused, after four allocations: each was
\* allocated once before one of them was allocated a second time
C30_Witness ==
  /\ Cardinality(Allocators) = 1 /\ inserted = 0 /\ allocs = MaxSeqAllocs
  /\ served.outcome = "returned" /\ served.cat = "welcome"
  /\ Len(templates["welcome"]) = 3
  /\ \A i \in 1..3 : templates["welcome"][i].usedCount >= 1
  /\ \E i \in 1..3 : templates["welcome"][i].usedCount = 2

(***************************************************************************)
(* Overlapping generate() calls on one key pool.                           *)
(***************************************************************************)
\* a pool that is fresh, or one or two uses away from being full
InitRace ==
  /\ \E prior \in {0} \cup {MAX_REQUESTS_PER_MINUTE * RaceKeys - j : j \in 0..2} :
        KeyInit(RaceKeys, prior, NumRacers)
  /\ TplInit([cat \in Categories |-> <<>>], 0, "welcome")
  /\ ModIdle

SpecRace == InitRace /\ [][KeyNext]_vars

\* how many keys after `from` key k comes in the cyclic order of the scan
CyclicDistance(from, k, n) == (k - from + n) % n
\* isKeyAvailable(k) as the scan of this step sees it: a cooldown set in the
\* step precedes the scan; the scan itself sets none and adds one use
EligibleAtAcquire(k) ==
  /\ keyUsageWindows'[k].rateLimitedUntil <= now
  /\ Len(CleanOldTimestamps(keyUsageWindows[k], now).timestamps) < MAX_REQUESTS_PER_MINUTE

\* C23: getNextApiKey returns the first available key in cyclic order from
\* currentKeyIndex, records one use on it (now) and none on another key, and
\* leaves currentKeyIndex one past it; while every key is available,
\* successive calls return consecutive keys modulo the pool size.
C23_RoundRobinAcquire ==
  [][(Acquisition /\ lastAcquire'.ok) =>
       LET r == lastAcquire'.key
       IN  /\ r \in KeyIdx
           /\ EligibleAtAcquire(r)
           /\ \A k \in KeyIdx :
                 CyclicDistance(currentKeyIndex, k, keys)
                     < CyclicDistance(currentKeyIndex, r, keys)
                   => ~EligibleAtAcquire(k)
           /\ currentKeyIndex' = (r + 1) % keys
           /\ keyUsageWindows'[r].timestamps
                = Append(CleanOldTimestamps(keyUsageWindows[r], now).timestamps, now)
           /\ \A k \in KeyIdx \ {r} :
                 keyUsageWindows'[k].timestamps
                   \in {keyUsageWindows[k].timestamps,
                        CleanOldTimestamps(keyUsageWindows[k], now).timestamps}
           /\ ((\A k \in KeyIdx : EligibleAtAcquire(k)) /\ lastAcquire.ok)
                 => r = (lastAcquire.key + 1) % keys]_vars

\* a new call skipped the key under the cursor, which is cooling down, and
\* took the next one
C23_Witness ==
  /\ \E c \in Calls :
        /\ gen[c].pc = "await" /\ gen[c].retry = 0
        /\ keyUsageWindows[(gen[c].key + keys - 1) % keys].rateLimitedUntil > now
        /\ currentKeyIndex = (gen[c].key + 1) % keys
        /\ lastAcquire.ok /\ lastAcquire.key = gen[c].key
  /\ \A c \in Calls : gen[c].pc = "await" => gen[c].retry = 0
  /\ calls = MaxGenerates

\* how call c stands after the step: still in flight, or settled in `done`
After(c) == IF gen'[c].pc = "idle" THEN done' ELSE gen'[c]
\* the awaited attempt of call c fails with a rate-limit signal in this step
RateLimited(c) ==
  /\ gen[c].pc = "await" /\ gen'[c] # gen[c]
  /\ After(c).retry = gen[c].retry + 1
\* getNextApiKey throws in this step
AcquireFails == (Acquisition /\ ~lastAcquire'.ok) \/ exhaustedAt' # exhaustedAt
\* the keys whose cooldown the step changes
Remarked ==
  {k \in KeyIdx : keyUsageWindows'[k].rateLimitedUntil # keyUsageWindows[k].rateLimitedUntil}

\* C24: getNextApiKey throws only when no key is available; the failed call
\* leaves currentKeyIndex where it was and records no use; generate() rethrows
\* the error at once, without a retry and without marking a key for it: in a
\* new call nothing changes at all, after a rate-limited attempt only the one
\* cooldown of that attempt is set.
C24_ExhaustionLeavesState ==
  [][AcquireFails =>
       /\ \A k \in KeyIdx : ~EligibleAtAcquire(k)
       /\ currentKeyIndex' = currentKeyIndex
       /\ \A k \in KeyIdx :
             keyUsageWindows'[k].timestamps = keyUsageWindows[k].timestamps
       /\ done'.outcome = "thrown" /\ done'.error = ExhaustedError
       /\ exhaustedAt' = now
       /\ \/ \E c \in Calls : RateLimited(c) /\ Cardinality(Remarked) <= 1
          \/ /\ done'.retry = 0 /\ done'.attempts = 0
             /\ keyUsageWindows' = keyUsageWindows
             /\ markedAt' = markedAt]_vars

\* a new call found every window full, no key cooling down, and threw
C24_Witness ==
  /\ exhaustedAt = now
  /\ done.outcome = "thrown" /\ done.error = ExhaustedError
  /\ done.attempts = 0 /\ done.retry = 0
  /\ \A k \in KeyIdx : markedAt[k] = -1
  /\ \A k \in KeyIdx : Len(keyUsageWindows[k].timestamps) = MAX_REQUESTS_PER_MINUTE
  /\ calls = MaxGenerates

\* C25: when an attempt of a generate() call fails with a rate-limit signal,
\* the key put on cooldown (for 60 s from now) is the key that attempt had
\* acquired, and no other, whatever other calls acquired in between; and the
\* next attempt of the call uses another key.
C25_MarksAcquiredKey ==
  [][\A c \in Calls :
       RateLimited(c) =>
         /\ Remarked \subseteq {gen[c].key}
         /\ keyUsageWindows'[gen[c].key].rateLimitedUntil = now + RATE_LIMIT_DURATION_MS
         /\ markedAt'[gen[c].key] = now
         /\ After(c).pc = "await" => After(c).key # gen[c].key]_vars

\* a text that is empty or holds only punctuation and braces
IsDegenerate(text) == text \in {"", "{}"}

\* C26: generate() never returns an empty or degenerate text: an attempt
\* that yields one counts as failed.
C26_NoDegenerateText ==
  done.outcome = "text" => ~IsDegenerate(done.text)

(***************************************************************************)
(* MessageEvent: execute(message) of the messageCreate event.              *)
(***************************************************************************)
Events == DOMAIN event
FirstFree(e) == event[e].pc = "idle" /\ \A q \in Events : q < e => event[q].pc # "idle"
NewEvent(a, content, h) ==
  [IdleEvent EXCEPT !.nth = events + 1, !.guildId = a[1], !.userId = a[2],
                    !.content = content, !.slot = h]
\* the checks of performModerationChecks, in the order of its statements
CheckOrder == <<"spam", "badword", "link">>

\* execute(message) returns at shouldIgnoreMessage: a bot's message, or one
\* outside a guild
ExecuteIgnored(e) ==
  /\ FirstFree(e)
  /\ events < MaxEvents
  /\ events' = events + 1
  /\ event' = [event EXCEPT ![e] = Resolved(NewEvent(<<"g1", "u1">>, IdleEvent.content, 0))]
  /\ UNCHANGED <<keyVars, tplVars, modVars, errorLog>>

\* execute(message) calls performModerationChecks, which awaits checkSpam;
\* with ~ok redis.incr rejects and checkSpam answers at once
Execute(e, a, content, ok) ==
  /\ FirstFree(e)
  /\ events < MaxEvents
  /\ events' = events + 1
  /\ \E h \in SpamChecks :
       IF ok
       THEN /\ CheckSpam(h, a[1], a[2])
            /\ event' = [event EXCEPT ![e] =
                           [NewEvent(a, content, h) EXCEPT !.pc = "checkSpam",
                                                           !.checks = <<"spam">>]]
       ELSE /\ IncrFails(h, a[1], a[2])
            /\ event' = [event EXCEPT ![e] =
                           Moderated([NewEvent(a, content, h) EXCEPT !.checks = <<"spam">>],
                                     verdict'.isSpam)]
  /\ UNCHANGED errorLog

\* checkSpam resolves, and performModerationChecks goes through its checks
SpamChecked(e, ok) ==
  /\ event[e].pc = "checkSpam"
  /\ IF ok THEN Incremented(event[e].slot) ELSE ExpireFails(event[e].slot)
  /\ event' = [event EXCEPT ![e] = Moderated(event[e], verdict'.isSpam)]
  /\ UNCHANGED <<events, errorLog>>

\* performModerationChecks awaits the handler of the violation it detected
CallHandler(e) ==
  /\ event[e].pc = "callHandler"
  /\ \E h \in Handlers :
       /\ HandleViolation(h, event[e].guildId, event[e].userId, event[e].type)
       /\ event' = [event EXCEPT ![e].pc = "handling", ![e].slot = h,
                                 ![e].handled = Append(@, event[e].type)]
  /\ UNCHANGED <<events, errorLog>>

\* the handler resolved: performModerationChecks returns true and execute
\* returns
HandlerReturned(e) ==
  /\ event[e].pc = "handling"
  /\ handling[event[e].slot].pc = "idle"
  /\ event' = [event EXCEPT ![e] = Resolved(event[e])]
  /\ UNCHANGED <<keyVars, tplVars, modVars, events, errorLog>>

\* the await at event[e].pc rejected: the enclosing catch logs and goes on
Caught(e, ev) ==
  /\ event' = [event EXCEPT ![e] = Thrown(ev)]
  /\ errorLog' = IF CatchSite(ev.pc) = "none" THEN errorLog ELSE Logged(ev)

\* await message.channel.sendTyping() settles; when it resolved,
\* generateFriendlyResponse calls generate
TypingSent(e, ok) ==
  /\ event[e].pc = "typing"
  /\ IF ok
     THEN \E c \in Calls :
            /\ \A q \in Calls : q < c => gen[q].pc # "idle"
            /\ GenerateStart(c)
            /\ LET ev == [event[e] EXCEPT !.pc = "generate", !.slot = c]
               IN  IF gen'[c].pc = "await"
                   THEN event' = [event EXCEPT ![e] = ev] /\ UNCHANGED errorLog
                   ELSE Caught(e, [ev EXCEPT !.genFailed = TRUE])
     ELSE Caught(e, event[e]) /\ UNCHANGED <<keyVars, tplVars, modVars>>
  /\ UNCHANGED events

\* generateFriendlyResponse resolves with the text of the upstream answer
Answered(e, text) ==
  /\ event[e].pc = "generate"
  /\ UpstreamOk(event[e].slot, text)
  /\ event' = [event EXCEPT ![e].pc = "reply"]
  /\ UNCHANGED <<events, errorLog>>

\* the upstream call of the attempt throws: generate retries with another
\* key, or generateFriendlyResponse rejects
AttemptFailed(e, error) ==
  /\ event[e].pc = "generate"
  /\ UpstreamError(event[e].slot, error)
  /\ IF gen'[event[e].slot].pc = "await"
     THEN UNCHANGED <<event, errorLog>>
     ELSE Caught(e, [event[e] EXCEPT !.genFailed = TRUE])
  /\ UNCHANGED events

\* await message.reply(...) settles: the greeting, the generated response,
\* the apology of generateAIResponse's catch, the fallback of handleMention's
ReplySettled(e, ok) ==
  /\ event[e].pc \in {"greeting", "reply", "apology", "fallback"}
  /\ IF ok
     THEN /\ event' = [event EXCEPT ![e] =
                         Resolved([event[e] EXCEPT
                                     !.replies = Append(@, ReplyKind(event[e].pc))])]
          /\ UNCHANGED errorLog
     ELSE Caught(e, event[e])
  /\ UNCHANGED <<keyVars, tplVars, modVars, events>>

\* messages of one member of one guild, who has sent no message in the window
\* or is one message short of the spam limit, and is one soft warning short
\* of the threshold, on a bot with one key
MsgAuthors == {<<"g1", "u1">>}
InitMsg ==
  /\ KeyInit(1, 0, NumEvents)
  /\ \E table \in WarningTables \ {<<>>} :
        TplInit([c \in Categories |-> IF c = "warning" THEN table ELSE <<>>], 0, "warning")
  /\ \E prior \in {0, SPAM_CONFIG.messageLimit - 1} : SpamInit(NumEvents, prior)
  /\ EscInit(PriorRows(MODERATION_CONFIG.warningThreshold - 1, LedgerTickMs, FALSE),
             Guilds, NumEvents)
  /\ MsgInit(NumEvents)

MsgNext ==
  \/ \E e \in Events : ExecuteIgnored(e)
  \/ \E e \in Events, a \in MsgAuthors, content \in Contents, ok \in BOOLEAN :
        Execute(e, a, content, ok)
  \/ \E e \in Events, ok \in BOOLEAN : SpamChecked(e, ok)
  \/ \E e \in Events : CallHandler(e)
  \/ \E e \in Events : HandlerReturned(e)
  \/ \E e \in Events, ok \in BOOLEAN : TypingSent(e, ok)
  \/ \E e \in Events, text \in UpstreamTexts : Answered(e, text)
  \/ \E e \in Events, error \in UpstreamErrors : AttemptFailed(e, error)
  \/ \E e \in Events, ok \in BOOLEAN : ReplySettled(e, ok)
  \/ \E h \in Handlers, ok \in BOOLEAN : MessageDeleted(h, ok) /\ UNCHANGED msgVars
  \/ \E h \in Handlers, ok \in BOOLEAN : WarningsCounted(h, ok) /\ UNCHANGED msgVars
  \/ \E h \in Handlers, ok \in BOOLEAN : MemberTimedOut(h, ok) /\ UNCHANGED msgVars
  \/ \E h \in Handlers, ok \in BOOLEAN : NotificationSent(h, ok) /\ UNCHANGED msgVars
  \/ \E h \in Handlers, ok \in BOOLEAN : EscalationRecorded(h, ok) /\ UNCHANGED msgVars
  \/ \E h \in Handlers : TemplateAllocated(h) /\ UNCHANGED msgVars
  \/ \E h \in Handlers, ok \in BOOLEAN : WarningSent(h, ok) /\ UNCHANGED msgVars
  \/ \E h \in Handlers, ok \in BOOLEAN : WarningRecorded(h, ok) /\ UNCHANGED msgVars
  \/ BatchInserted(<<>>) /\ UNCHANGED msgVars
  \/ BatchDelayDone /\ UNCHANGED msgVars
  \/ BatchFailed /\ UNCHANGED msgVars

SpecMsg == InitMsg /\ [][MsgNext]_vars

\* C21: execute(message) never rejects, whichever awaited side effect fails:
\* the failure reaches a catch block that logs it (the apology is sent only
\* after generateAIResponse's catch logged, the fallback only after
\* handleMention's), and the event handler takes the messages that follow.
C21_NeverRejects ==
  \A e \in Events :
    /\ event[e].result # "rejected"
    /\ event[e].pc = "apology" => <<event[e].nth, "generateAIResponse">> \in errorLog
    /\ event[e].pc = "fallback" => <<event[e].nth, "handleMention">> \in errorLog
\* the first message's typing indicator and fallback reply both failed and
\* execute's catch logged it; the second message was answered with the
\* generated text
C21_Witness ==
  /\ <<1, "execute">> \in errorLog
  /\ \E e \in Events :
       /\ event[e].nth = 2
       /\ event[e].result = "resolved"
       /\ event[e].replies = <<"generated">>

\* C22: when generateFriendlyResponse rejects while a mention is answered,
\* the catch of generateAIResponse logs and sends the apology reply; the
\* generated-text reply is never delivered for that mention, the fallback is
\* delivered only when the apology reply failed, and at most one reply is
\* delivered.
C22_ApologyOnFailure ==
  \A e \in Events :
    /\ Len(event[e].replies) <= 1
    /\ event[e].genFailed =>
         /\ <<event[e].nth, "generateAIResponse">> \in errorLog
         /\ event[e].pc \in {"idle", "apology", "fallback"}
         /\ \A i \in DOMAIN event[e].replies :
              event[e].replies[i] \in {"apology", "fallback"}
         /\ (event[e].pc # "apology" /\ event[e].replies # <<"apology">>)
              => <<event[e].nth, "handleMention">> \in errorLog
\* a mention whose generation failed was answered with the apology alone
C22_Witness ==
  \E e \in Events :
    /\ event[e].genFailed
    /\ event[e].result = "resolved"
    /\ event[e].replies = <<"apology">>

\* C31: a counter that counts at least one message has an expiry: also when
\* every checkSpam call has returned, no counter is left without one.
C31_CounterHasExpiry ==
  (\A h \in SpamChecks : spamCheck[h].pc = "idle")
    => \A k \in SpamKeys : counters[k].count >= 1 => counters[k].expireAt # NULL

\* execute(message) goes past shouldIgnoreMessage for slot e in this step
Accepted(e) ==
  /\ event[e].pc = "idle"
  /\ event'[e] # event[e]
  /\ event'[e].checks # <<>>
\* the first k checks of performModerationChecks
FirstChecks(k) == SubSeq(CheckOrder, 1, k)

\* C32: for a message that is not ignored the checks run in the order spam,
\* badword, link and stop at the first violation; the handler of that
\* violation is the only handler invoked, the message gets no reply, and a
\* message gets to handleMention only after all three checks passed.  The
\* spam counter is incremented (INCR is issued) for every such message,
\* whatever its content.
C32_ChecksShortCircuit ==
  /\ [](\A e \in Events :
          LET ev == event[e]
          IN  /\ \E k \in 0..Len(CheckOrder) : ev.checks = FirstChecks(k)
              /\ Len(ev.handled) <= 1
              /\ ev.pc \in {"callHandler", "handling"} \/ ev.handled # <<>> =>
                   /\ ev.type = ev.checks[Len(ev.checks)]
                   /\ ev.type = "badword" => ev.content.badword
                   /\ ev.type = "link" => ev.content.link /\ ~ev.content.badword
                   /\ ev.replies = <<>>
                   /\ ev.handled \in {<<>>, <<ev.type>>}
              /\ ev.pc \in {"typing", "generate", "greeting", "reply", "apology", "fallback"}
                   \/ ev.replies # <<>> =>
                   /\ ev.checks = CheckOrder
                   /\ ev.handled = <<>>
                   /\ ~ev.content.badword /\ ~ev.content.link /\ ev.content.mention)
  /\ [][\A e \in Events :
          Accepted(e) =>
            LET key == CreateSpamCacheKey(event'[e].guildId, event'[e].userId)
            IN  /\ event'[e].checks[1] = "spam"
                /\ messages' = messages + 1
                /\ \/ /\ counters'[key].count = RedisIncr(counters[key], now).count
                      /\ arrivals'[key] = Append(arrivals[key], now)
                   \/ verdict'.outcome = "failed" /\ verdict'.key = key]_vars
\* a message with a badword, a link and a mention that was not spam: the
\* spam and badword checks ran, the badword handler was invoked and returned
C32_Witness ==
  \E e \in Events :
    /\ event[e].content = Content(TRUE, TRUE, TRUE, TRUE)
    /\ event[e].checks = <<"spam", "badword">>
    /\ event[e].handled = <<"badword">>
    /\ event[e].result = "resolved"
    /\ counters[CreateSpamCacheKey("g1", "u1")].count = SPAM_CONFIG.messageLimit

\* C33 as stated: whether message.delete() resolves or rejects, the handler
\* goes on to its next step (the warning count for spam and badword, the soft
\* warning for a link).
C33_DeleteBestEffort ==
  [][\A h \in Handlers :
       (handling[h].pc = "delete" /\ handling'[h] # handling[h]) =>
         handling'[h].pc = AfterDelete(handling[h].type)]_vars

\* C34: a handler soft-warns on the count it read, whatever the ledger holds
\* when it writes: handlers of one member that overlap can each read a count
\* below the threshold and each append a soft row, so the soft rows of the
\* member inside the window can exceed the threshold, by at most one row per
\* overlapping handler beyond the first.
C34_StaleCountOvershoots ==
  /\ [](\A m \in Authors :
          SoftInWindow(ledger, m[2], m[1], now)
            <= MODERATION_CONFIG.warningThreshold + NumHandlers - 1)
  /\ [][\A h \in Handlers :
          SoftWarningDone(h) =>
            /\ handling[h].warningCount < MODERATION_CONFIG.warningThreshold
            /\ ledger' = Append(ledger, NewWarning(handling[h].userId, handling[h].guildId,
                                                   handling[h].type, now))]_vars
\* two handlers of one member have returned: the member has more soft rows in
\* the window than the threshold, two of them written by these handlers, and
\* no escalation row was written
C34_Witness ==
  /\ \A h \in Handlers : handling[h].pc = "idle"
  /\ SoftInWindow(ledger, "u1", "g1", now) > MODERATION_CONFIG.warningThreshold
  /\ Len(SelectSeq(ledger, LAMBDA r : InRun(r) /\ r.warnedBy = "shee" /\ r.userId = "u1")) = 2
  /\ \A i \in DOMAIN ledger : InRun(ledger[i]) => ledger[i].warnedBy # "heez"

(***************************************************************************)
(* The violations of one member handled one at a time.                     *)
(***************************************************************************)
\* one handler activation at a time, over a ledger that is empty or holds
\* three recent soft warnings of the member beside rows that do not count
InitOne ==
  /\ KeyInit(0, 0, 0)
  /\ \E table \in WarningTables \ {<<>>} :
        TplInit([c \in Categories |-> IF c = "warning" THEN table ELSE <<>>], 0, "warning")
  /\ SpamInit(0, 0)
  /\ \E rows \in {<<>>, PriorRows(MODERATION_CONFIG.warningThreshold, LedgerTickMs, TRUE)} :
        EscInit(rows, Guilds, 1)
  /\ MsgInit(0)

OneNext ==
  \/ \E h \in Handlers, type \in ViolationTypes :
        HandleViolationUpTo(h, "g1", "u1", type, MaxSeqViolations) /\ UNCHANGED msgVars
  \/ \E h \in Handlers, ok \in BOOLEAN : MessageDeleted(h, ok) /\ UNCHANGED msgVars
  \/ \E h \in Handlers, ok \in BOOLEAN : WarningsCounted(h, ok) /\ UNCHANGED msgVars
  \/ \E h \in Handlers, ok \in BOOLEAN : MemberTimedOut(h, ok) /\ UNCHANGED msgVars
  \/ \E h \in Handlers, ok \in BOOLEAN : NotificationSent(h, ok) /\ UNCHANGED msgVars
  \/ \E h \in Handlers, ok \in BOOLEAN : EscalationRecorded(h, ok) /\ UNCHANGED msgVars
  \/ \E h \in Handlers : TemplateAllocated(h) /\ UNCHANGED msgVars
  \/ \E h \in Handlers, ok \in BOOLEAN : WarningSent(h, ok) /\ UNCHANGED msgVars
  \/ \E h \in Handlers, ok \in BOOLEAN : WarningRecorded(h, ok) /\ UNCHANGED msgVars
  \/ BatchInserted(<<>>) /\ UNCHANGED msgVars
  \/ BatchDelayDone /\ UNCHANGED msgVars
  \/ BatchFailed /\ UNCHANGED msgVars
  \/ LedgerTick /\ UNCHANGED msgVars

SpecOne == InitOne /\ [][OneNext]_vars

\* the soft-warning rows of member m created from instant t up to 7 days later
SoftInSpan(rows, m, t) ==
  Len(SelectSeq(rows, LAMBDA r : /\ r.userId = m[2] /\ r.guildId = m[1]
                                 /\ r.warnedBy = "shee"
                                 /\ r.createdAt >= t
                                 /\ r.createdAt <= t + 7 * DayMs))

\* C35: with the violations of a member handled one at a time, no span of 7
\* days holds more than 3 of the member's soft-warning rows.
C35_SoftRowsBounded ==
  \A m \in Authors : \A i \in DOMAIN ledger :
    SoftInSpan(ledger, m, ledger[i].createdAt) <= MODERATION_CONFIG.warningThreshold
\* the member was soft-warned three times in the run, and the violation after
\* these was escalated
C35_Witness ==
  /\ Len(SelectSeq(ledger, LAMBDA r : InRun(r) /\ r.warnedBy = "shee")) = 3
  /\ ledger[Len(ledger)].warnedBy = "heez"
  /\ handling[1].pc = "idle"

\* C36: a spam or badword handler that finds at least 3 soft rows of the
\* member in the window escalates, however many escalations preceded it; the
\* escalation row it writes has severity 3 and changes no member's warning
\* count; and a handler that finds fewer, the older rows having left the
\* window, soft-warns.
C36_EscalatesUntilAgedOut ==
  [][\A h \in Handlers :
       LET a == handling[h]
           member == <<a.guildId, a.userId>>
       IN  /\ Decides(h) =>
                IF SoftInWindow(ledger, a.userId, a.guildId, now)
                     >= MODERATION_CONFIG.warningThreshold
                THEN handling'[h].pc = "timeout"
                ELSE handling'[h].pc = "template"
           /\ (a.pc = "timeout" /\ handling'[h].pc \in {"notify", "recordEscalation"}) =>
                timeouts'[member] = now + MODERATION_CONFIG.timeoutDurationMs
           /\ EscalationDone(h) =>
                /\ a.timedOut
                /\ ledger'[Len(ledger')].severity = 3
                /\ \A m \in Authors :
                     GetWarningCount(ledger', m[2], m[1], now)
                       = GetWarningCount(ledger, m[2], m[1], now)]_vars
\* the member, with 3 soft rows in the window, was escalated twice in a row;
\* the soft rows then left the window and the next violation was soft-warned
C36_Witness ==
  /\ Len(ledger) >= 3
  /\ LET n == Len(ledger)
     IN  /\ InRun(ledger[n - 2]) /\ ledger[n - 2].warnedBy = "heez"
         /\ InRun(ledger[n - 1]) /\ ledger[n - 1].warnedBy = "heez"
         /\ InRun(ledger[n]) /\ ledger[n].warnedBy = "shee"
         /\ ledger[n].userId = ledger[n - 1].userId
  /\ SoftInWindow(ledger, "u1", "g1", now) = 1
  /\ handling[1].pc = "idle"

\* the rows of warning_templates keep their used_count or gain uses
UsesKept ==
  \A i \in DOMAIN templates["warning"] :
    /\ i \in DOMAIN templates'["warning"]
    /\ templates'["warning"][i].usedCount >= templates["warning"][i].usedCount

\* C37: a soft-warning row is appended only by a handler whose template was
\* allocated and whose send completed; a handler that ends at the allocation
\* (no template of the type) or at the send writes no row and changes no
\* warning count, and the use recorded on an allocated template stays.
C37_RowOnlyAfterSend ==
  [][/\ \A h \in Handlers :
          LET a == handling[h]
          IN  /\ SoftWarningDone(h) => a.sent /\ a.type # "link"
              /\ (a.pc = "record" /\ handling'[h] # a) => a.sent
              /\ (a.pc = "template" /\ handling'[h].pc = "send") =>
                   SumUsed(templates'["warning"]) = SumUsed(templates["warning"]) + 1
              /\ (a.pc \in {"template", "send"} /\ handling'[h].pc = "idle") =>
                   /\ ledger' = ledger
                   /\ a.pc = "send" => templates' = templates
                   /\ \A m \in Authors :
                        GetWarningCount(ledger', m[2], m[1], now')
                          = GetWarningCount(ledger, m[2], m[1], now)
     /\ (Len(ledger') > Len(ledger) /\ ledger'[Len(ledger')].warnedBy = "shee") =>
          \E h \in Handlers : SoftWarningDone(h)
     /\ UsesKept]_vars
\* one spam or badword violation was handled to its end: a warning template
\* was allocated for it (its use is recorded) and no row was written
C37_Witness ==
  /\ violations = 1
  /\ \A h \in Handlers : handling[h].pc = "idle"
  /\ \E i \in DOMAIN templates["warning"] :
        /\ templates["warning"][i].tag # "link"
        /\ templates["warning"][i].lastUsedAt # NULL
        /\ templates["warning"][i].lastUsedAt >= StartMs
  /\ \A i \in DOMAIN ledger : ~InRun(ledger[i])

\* C38: escalateToHeez times the member out, then posts the notification,
\* then writes the escalation row, and ends at the first step that rejects
\* without writing the row; so every escalation row was written by a handler
\* that had timed its member out.
C38_EscalationInOrder ==
  /\ [](\A h \in Handlers :
          LET a == handling[h]
          IN  /\ a.pc \in {"notify", "recordEscalation"} =>
                   a.timedOut /\ timeouts[<<a.guildId, a.userId>>] > 0
              /\ a.pc = "recordEscalation" => (a.notified <=> a.guildId \in generalChannels)
              /\ a.notified => a.timedOut)
  /\ [](\A i \in DOMAIN ledger :
          (InRun(ledger[i]) /\ ledger[i].warnedBy = "heez") =>
            timeouts[<<ledger[i].guildId, ledger[i].userId>>] > 0)
  /\ [][\A h \in Handlers :
          LET a == handling[h]
          IN  /\ (a.pc = "timeout" /\ handling'[h] # a) =>
                   /\ handling'[h].pc \in {"notify", "recordEscalation", "idle"}
                   /\ ledger' = ledger
                   /\ handling'[h].pc = "idle" => timeouts' = timeouts
              /\ (a.pc = "notify" /\ handling'[h] # a) =>
                   /\ handling'[h].pc \in {"recordEscalation", "idle"}
                   /\ ledger' = ledger
              /\ EscalationDone(h) => a.timedOut]_vars
\* a member was timed out and the handler has returned, but the step after
\* the timeout failed: no escalation row was written
C38_Witness ==
  /\ \A h \in Handlers : handling[h].pc = "idle"
  /\ timeouts[<<"g1", "u1">>] > 0
  /\ \A i \in DOMAIN ledger : ~InRun(ledger[i])

\* C39: the flag is true exactly while one generate...Templates run is
\* between its start and its exit: a call that is skipped because a run is in
\* flight leaves the flag, the run and the tables as they are, and the flag
\* falls only in the step in which the run exits.
C39_FlagWhileRunning ==
  /\ [](isGenerating <=> batch.pc # "idle")
  /\ [](isGenerating <=> running = 1)
  /\ [][/\ \A p \in Allocators :
            (Checks(p) /\ isGenerating /\ alloc[p].count < LOW_TEMPLATE_THRESHOLD) =>
              (isGenerating' /\ batch' = batch /\ running' = running)
       /\ (isGenerating /\ ~isGenerating') => RunEnds]_vars
\* a call was skipped while a run was in flight, the call has gone on to its
\* select, and the run is still in flight with the flag set
C39_Witness ==
  /\ isGenerating
  /\ batch.pc # "idle"
  /\ \E p \in Allocators : alloc[p].skipped /\ alloc[p].pc = "mark"

\* the spam check of the message in slot e ends in this step with a failed
\* cache call: redis.incr rejected (or there is no client), or redis.expire
\* rejected after the first increment
SpamCheckFailed(e) ==
  \/ Accepted(e) /\ event'[e].pc # "checkSpam"
  \/ event[e].pc = "checkSpam" /\ event'[e].pc # "checkSpam" /\ verdict'.outcome = "failed"

\* C40: when a cache call of the spam check fails the count is 0 and the
\* message is not flagged: no spam handler is invoked for it, the badword
\* check runs, and the link check runs unless a badword was found.
C40_SpamFailsOpen ==
  [][\A e \in Events :
       SpamCheckFailed(e) =>
         LET ev == event'[e]
         IN  /\ verdict'.outcome = "failed"
             /\ verdict'.count = 0 /\ ~verdict'.isSpam
             /\ ev.pc = "callHandler" => ev.type # "spam"
             /\ ev.pc = "callHandler" <=> (ev.content.badword \/ ev.content.link)
             /\ ev.checks = IF ev.content.badword THEN FirstChecks(2) ELSE CheckOrder]_vars
\* a redis.expire rejected, the last spam check ended with a failed cache
\* call, and the latest message, which holds a link, went to the link handler
C40_Witness ==
  \E e \in Events :
    /\ event[e].content = Content(FALSE, TRUE, FALSE, TRUE)
    /\ event[e].handled = <<"link">>
    /\ verdict.outcome = "failed"
    /\ event[e].nth = events
    /\ \A q \in Events : event[q].pc \notin {"checkSpam"}
    /\ faulted # {}

====
